---- MODULE Spec2Model ----
(***************************************************************************)
(* Collapse Messenger: trust-gated causal acceptance.                      *)
(*                                                                         *)
(* The program is single threaded: NodeMessenger values share one          *)
(* MemoryTransport; every public method runs to completion.  poll() is     *)
(* modelled by its drain followed by one step per drained message (the     *)
(* body of its for loop); while that loop runs no other method runs.       *)
(*                                                                         *)
(* Scores are Rust f64.  A score is held exactly, as a natural number of   *)
(* units of 2^-60 written in base 2^15, least significant limb first and   *)
(* without leading zero limbs (0.5 = 2^59 = <<0,0,0,16384>>, 0.0 = <<>>).  *)
(* Every arithmetic result is rounded to 53 significant bits, ties to      *)
(* even, as IEEE-754 binary64 does.                                        *)
(***************************************************************************)
EXTENDS Integers, Sequences, FiniteSets, TLC

(***************************************************************************)
(* Natural numbers in base 2^15                                            *)
(***************************************************************************)
LimbBits == 15
Limb == 2^LimbBits

Max2(a, b) == IF a >= b THEN a ELSE b

RECURSIVE BNorm(_)
\* drop leading (most significant) zero limbs
BNorm(a) ==
    IF a = <<>> THEN <<>>
    ELSE IF a[Len(a)] = 0 THEN BNorm(SubSeq(a, 1, Len(a) - 1))
    ELSE a

BLimb(a, i) == IF i <= Len(a) THEN a[i] ELSE 0

RECURSIVE BAddC(_, _, _, _)
BAddC(a, b, i, carry) ==
    IF i > Max2(Len(a), Len(b))
    THEN (IF carry = 0 THEN <<>> ELSE <<carry>>)
    ELSE LET s == BLimb(a, i) + BLimb(b, i) + carry
         IN  <<s % Limb>> \o BAddC(a, b, i + 1, s \div Limb)

BAdd(a, b) == BNorm(BAddC(a, b, 1, 0))

RECURSIVE BSubC(_, _, _, _)
BSubC(a, b, i, borrow) ==
    IF i > Len(a) THEN <<>>
    ELSE LET s == BLimb(a, i) - BLimb(b, i) - borrow
         IN  IF s < 0 THEN <<s + Limb>> \o BSubC(a, b, i + 1, 1)
                      ELSE <<s>> \o BSubC(a, b, i + 1, 0)

\* a - b for a >= b
BSub(a, b) == BNorm(BSubC(a, b, 1, 0))

RECURSIVE BLessFrom(_, _, _)
BLessFrom(a, b, i) ==
    IF i = 0 THEN FALSE
    ELSE IF a[i] # b[i] THEN a[i] < b[i]
    ELSE BLessFrom(a, b, i - 1)

\* a < b, both without leading zero limbs
BLess(a, b) ==
    IF Len(a) # Len(b) THEN Len(a) < Len(b) ELSE BLessFrom(a, b, Len(a))

RECURSIVE BMulLimbC(_, _, _, _)
BMulLimbC(a, x, i, carry) ==
    IF i > Len(a)
    THEN (IF carry = 0 THEN <<>> ELSE <<carry>>)
    ELSE LET s == a[i] * x + carry
         IN  <<s % Limb>> \o BMulLimbC(a, x, i + 1, s \div Limb)

RECURSIVE BZeros(_)
BZeros(n) == IF n = 0 THEN <<>> ELSE <<0>> \o BZeros(n - 1)

BShiftLimbs(a, n) == IF a = <<>> THEN <<>> ELSE BZeros(n) \o a

RECURSIVE BMulFrom(_, _, _)
BMulFrom(a, b, i) ==
    IF i > Len(b) THEN <<>>
    ELSE BAdd(BShiftLimbs(BNorm(BMulLimbC(a, b[i], 1, 0)), i - 1),
              BMulFrom(a, b, i + 1))

BMul(a, b) == BMulFrom(a, b, 1)

RECURSIVE SmallBitLen(_)
SmallBitLen(x) == IF x = 0 THEN 0 ELSE 1 + SmallBitLen(x \div 2)

BBitLen(a) ==
    IF a = <<>> THEN 0 ELSE (Len(a) - 1) * LimbBits + SmallBitLen(a[Len(a)])

BPow2(k) == BZeros(k \div LimbBits) \o <<2^(k % LimbBits)>>

\* a mod 2^k
BLowBits(a, k) ==
    LET q == k \div LimbBits
        r == k % LimbBits
    IN  IF q >= Len(a) THEN a
        ELSE BNorm(SubSeq(a, 1, q) \o <<a[q + 1] % (2^r)>>)

\* bit k of a (bit 0 is the least significant)
BBit(a, k) == (BLimb(a, k \div LimbBits + 1) \div 2^(k % LimbBits)) % 2

(***************************************************************************)
(* IEEE-754 binary64: round to 53 significant bits, ties to even           *)
(***************************************************************************)
MantissaBits == 53

Round53(a) ==
    LET len == BBitLen(a) IN
    IF len <= MantissaBits THEN a
    ELSE LET k    == len - MantissaBits
             low  == BLowBits(a, k)
             half == BPow2(k - 1)
             down == BSub(a, low)
             up   == \/ BLess(half, low)
                     \/ low = half /\ BBit(a, k) = 1
         IN  IF up THEN BAdd(down, BPow2(k)) ELSE down

\* a binary64 is [neg, mag]: its sign and its magnitude in units of 2^-60
F64(limbs) == [neg |-> FALSE, mag |-> limbs]

\* the sum of two signed magnitudes of one unit, rounded; a zero sum is +0.0
SignedAdd(a, b) ==
    IF a.neg = b.neg
    THEN [neg |-> a.neg /\ BAdd(a.mag, b.mag) # <<>>,
          mag |-> Round53(BAdd(a.mag, b.mag))]
    ELSE IF BLess(a.mag, b.mag)
         THEN [neg |-> b.neg, mag |-> Round53(BSub(b.mag, a.mag))]
         ELSE [neg |-> a.neg /\ a.mag # b.mag, mag |-> Round53(BSub(a.mag, b.mag))]

F64Neg(a) == [neg |-> ~a.neg, mag |-> a.mag]

F64Add(a, b) == SignedAdd(a, b)

F64Sub(a, b) == SignedAdd(a, F64Neg(b))

\* a < b
F64Lt(a, b) ==
    IF a.mag = <<>> /\ b.mag = <<>> THEN FALSE
    ELSE IF a.neg # b.neg THEN a.neg
    ELSE IF a.neg THEN BLess(b.mag, a.mag)
    ELSE BLess(a.mag, b.mag)

\* f64::min, f64::max (no NaN arises)
F64Min(a, b) == IF F64Lt(b, a) THEN b ELSE a
F64Max(a, b) == IF F64Lt(a, b) THEN b ELSE a

\* units of 2^-60  <->  units of 2^-120
UnitLimbs == 60 \div LimbBits
Widen(a) == [neg |-> a.neg, mag |-> BShiftLimbs(a.mag, UnitLimbs)]
Narrow(a) ==
    [neg |-> a.neg /\ Len(a.mag) > UnitLimbs,
     mag |-> IF Len(a.mag) <= UnitLimbs THEN <<>>
             ELSE SubSeq(a.mag, UnitLimbs + 1, Len(a.mag))]

\* the rounded product, in units of 2^-120
F64MulWide(a, b) ==
    [neg |-> a.neg # b.neg /\ BMul(a.mag, b.mag) # <<>>,
     mag |-> Round53(BMul(a.mag, b.mag))]

RECURSIVE DivBits(_, _, _, _)
\* long division, bit by bit, of rem * 2^k + (the low k bits of x) by j, for
\* rem < j < 2^30: the quotient and the remainder
DivBits(x, k, j, rem) ==
    IF k = 0 THEN [q |-> 0, r |-> rem]
    ELSE LET cur  == 2 * rem + ((x \div 2^(k - 1)) % 2)
             bit  == IF cur >= j THEN 1 ELSE 0
             rest == DivBits(x, k - 1, j, cur - bit * j)
         IN  [q |-> bit * 2^(k - 1) + rest.q, r |-> rest.r]

\* rem * Limb + x divided by j, for rem < j < 2^30 and a limb x: in one step
\* where rem * Limb + x is below 2^31, and else bit by bit
DivLimb(x, j, rem) ==
    IF j <= 2^16
    THEN [q |-> (rem * Limb + x) \div j, r |-> (rem * Limb + x) % j]
    ELSE DivBits(x, LimbBits, j, rem)

RECURSIVE BDivSmallFrom(_, _, _, _)
\* long division of the limbs i, i-1, .., 1 of a by j (0 < j < 2^30), rem
\* carried in from the limbs above: the quotient's limbs and the remainder
BDivSmallFrom(a, j, i, rem) ==
    IF i = 0 THEN [q |-> <<>>, r |-> rem]
    ELSE LET cur  == DivLimb(a[i], j, rem)
             rest == BDivSmallFrom(a, j, i - 1, cur.r)
         IN  [q |-> Append(rest.q, cur.q), r |-> rest.r]

\* a / j for a whole j, 0 < j < 2^30, rounded to 53 significant bits.  The
\* quotient is a binary64 in units of 2^-120 (as F64MulWide's product is): a
\* quotient below 2^-7 has bits under 2^-60.  A remainder is kept as a set
\* low bit, so the rounding sees it
F64DivInt(a, j) ==
    LET d     == BDivSmallFrom(Widen(a).mag, j, Len(Widen(a).mag), 0)
        q     == BNorm(d.q)
        exact == IF d.r # 0 /\ BBit(q, 0) = 0 THEN BAdd(q, <<1>>) ELSE q
    IN  [neg |-> a.neg /\ q # <<>>, mag |-> Round53(exact)]

(***************************************************************************)
(* reputation.rs                                                           *)
(***************************************************************************)
\* the f64 nearest to each literal of ReputationBook::new
reward_step     == F64(<<6560, 13107, 26214, 3276>>)     \* 0.1
punish_step     == F64(<<13120, 26214, 19660, 6553>>)    \* 0.2
floor           == F64(<<>>)                             \* 0.0
ceiling         == F64(<<0, 0, 0, 0, 1>>)                \* 1.0
neutral         == F64(<<0, 0, 0, 16384>>)               \* 0.5
admit_threshold == F64(<<19648, 6553, 13107, 9830>>)     \* 0.30
decay_rate      == F64(<<6560, 13107, 26214, 3276>>)     \* 0.1 in decay

\* a ReputationBook is its scores map: a function on the tracked identities
NewBook == [x \in {} |-> neutral]

get(book, who) == IF who \in DOMAIN book THEN book[who] ELSE neutral

\* scores.entry(who).or_insert(neutral), then *e = v
SetScore(book, who, v) ==
    [x \in (DOMAIN book) \cup {who} |-> IF x = who THEN v ELSE book[x]]

\* mutant: the ceiling is not applied
reward_unclamped(book, who) ==
    SetScore(book, who, F64Add(get(book, who), reward_step))

reward(book, who) ==
    SetScore(book, who, F64Min(F64Add(get(book, who), reward_step), ceiling))

punish(book, who) ==
    SetScore(book, who, F64Max(F64Sub(get(book, who), punish_step), floor))

\* mutant: every score decays, also one at or above neutral
decay_score_all(score) ==
    LET delta == F64MulWide(decay_rate, F64Sub(neutral, score))
    IN  Narrow(SignedAdd(Widen(score), delta))

\* one score through the body of decay's loop:
\*   delta = 0.1 * (neutral - score); score += delta
\* delta is a multiple of 2^-120; the sum of a score in [0, 0.5) and its
\* delta is at least 0.05, so its 53 significant bits are whole units of 2^-60
decay_score(score) ==
    IF F64Lt(score, neutral)
    THEN LET delta == F64MulWide(decay_rate, F64Sub(neutral, score))
         IN  Narrow(SignedAdd(Widen(score), delta))
    ELSE score

\* mutant: decay leaves every score where it is
decay_frozen(book) == book

decay(book) == [x \in DOMAIN book |-> decay_score(book[x])]

(***************************************************************************)
(* types.rs                                                                *)
(***************************************************************************)
\* a float a caller supplies (an f32, widened to f64 without loss): a finite
\* value, or NaN, +inf or -inf
Finite(v) == [class |-> "finite", value |-> v]
NaN == [class |-> "NaN", value |-> 0]
PosInf == [class |-> "+inf", value |-> 0]
NegInf == [class |-> "-inf", value |-> 0]

\* serde_json writes a finite float as the shortest decimal that reads back
\* as it, one text per value, and every float that is not finite as null
JsonNull == [class |-> "null", value |-> 0]
JsonF64(x) == IF x.class = "finite" THEN x ELSE JsonNull

\* serde_json::to_string(obj) of a Content, a RetinaBody or a byte slice (held
\* in a record): one text per value, but that the floats a caller supplied
\* (lambda, sigma, center_x, center_y) are written as JsonF64 writes them;
\* the other floats of a RetinaBody are finite
to_string(obj) ==
    IF "lambda" \in DOMAIN obj
    THEN [obj EXCEPT !.lambda = JsonF64(@),
                     !.foveation = [sigma |-> JsonF64(@.sigma),
                                    center_x |-> JsonF64(@.center_x),
                                    center_y |-> JsonF64(@.center_y)]]
    ELSE obj

\* SHA-256 is modelled as collision free on the JSON text it is given: a
\* digest is the one-element sequence holding the serialised value, the
\* all-zero digest is the empty sequence (no value hashes to it)
compute_digest(obj) == <<to_string(obj)>>

sign_digest(pk, d) == <<"SIG", pk, d>>

zero_digest == <<>>

\* Digest([7u8; 32]) of the tests: 32 bytes that are the hash of no content
bogus_digest == <<[kind |-> "Bytes7"]>>

(***************************************************************************)
(* phi.rs                                                                  *)
(***************************************************************************)
\* store::put(bytes) when the directory and the file can be written: Ok with
\* the digest of the bytes (store.rs)
store_put(bytes) == [ok |-> TRUE, digest |-> compute_digest([slice |-> bytes])]

\* char::is_whitespace: the code points with the Unicode property White_Space,
\* U+0009..U+000D, U+0020, U+0085, U+00A0, U+1680, U+2000..U+200A, U+2028,
\* U+2029, U+202F, U+205F and U+3000.  A character of a text is a string of
\* one character; one beyond U+00FF, which no string of the module can hold,
\* is written as its escape, the six characters \uXXXX
IsWhitespace(c) ==
    c \in {"\t", "\n", "", "\f", "\r", " ", "", " ",
           "\\u1680", "\\u2000", "\\u2001", "\\u2002", "\\u2003", "\\u2004",
           "\\u2005", "\\u2006", "\\u2007", "\\u2008", "\\u2009", "\\u200a",
           "\\u2028", "\\u2029", "\\u202f", "\\u205f", "\\u3000"}

RECURSIVE SplitWhitespace(_, _)
\* str::split_whitespace: the maximal runs of non-whitespace, in order
\* (word is the run being read)
SplitWhitespace(raw, word) ==
    IF raw = <<>> THEN (IF word = <<>> THEN <<>> ELSE <<word>>)
    ELSE IF IsWhitespace(Head(raw))
         THEN (IF word = <<>> THEN <<>> ELSE <<word>>)
              \o SplitWhitespace(Tail(raw), <<>>)
         ELSE SplitWhitespace(Tail(raw), Append(word, Head(raw)))

RECURSIVE Join(_, _)
\* [&str]::join(sep)
Join(words, sep) ==
    IF words = <<>> THEN <<>>
    ELSE IF Len(words) = 1 THEN words[1]
    ELSE words[1] \o sep \o Join(Tail(words), sep)

\* the placeholder solve of collapse_evidence; a_hat in units of 0.01
a_hat_demo == <<10, 20, 5, 0, -3, 7, 12>>

\* mutant: the ends are trimmed, the runs of whitespace inside are kept
collapse_evidence_trim(e) ==
    CASE e.kind = "DraftText" ->
           LET solid == {i \in 1..Len(e.raw) : ~IsWhitespace(e.raw[i])}
               first == CHOOSE i \in solid : \A k \in solid : i <= k
               last == CHOOSE i \in solid : \A k \in solid : k <= i
           IN  [kind |-> "Text",
                canonical_text |->
                    IF solid = {} THEN <<>> ELSE SubSeq(e.raw, first, last)]

\* mutant: the ends are trimmed and each whitespace character inside becomes
\* a space, a run of them a run of spaces
collapse_evidence_each(e) ==
    CASE e.kind = "DraftText" ->
           LET trimmed == collapse_evidence_trim(e).canonical_text
           IN  [kind |-> "Text",
                canonical_text |->
                    [i \in 1..Len(trimmed) |->
                        IF IsWhitespace(trimmed[i]) THEN " " ELSE trimmed[i]]]

collapse_evidence(e) ==
    CASE e.kind = "DraftText" ->
           [kind |-> "Text",
            canonical_text |-> Join(SplitWhitespace(e.raw, <<>>), <<" ">>)]
      [] e.kind = "RawRetinaCapture" ->
           [kind |-> "Retina",
            lambda |-> e.lambda,
            omega_id |-> "omega/0",
            basis_spec |-> [nx |-> e.basis_cfg[1], ny |-> e.basis_cfg[2],
                            basis_fingerprint |-> "basis/demo"],
            foveation |-> [sigma |-> e.foveation_cfg[1],
                           center_x |-> e.foveation_cfg[2],
                           center_y |-> e.foveation_cfg[3]],
            a_hat |-> a_hat_demo,
            cert |-> [psnr_equiv_db |-> 80,
                      fused_variance_drop |-> F64(<<>>),
                      deterministic_hash |-> "demo-cert",
                      foveation_alignment_score |-> 1]]
      [] e.kind = "StatusIntent" ->
           [f \in {"kind"} \cup DOMAIN e.evt |->
               IF f = "kind" THEN "Status" ELSE e.evt[f]]
      [] e.kind = "Blob" ->
           [kind |-> "Blob", mime |-> e.mime, len |-> Len(e.bytes),
            object_digest |-> store_put(e.bytes).digest]

phi_collapse(e) == collapse_evidence(e)

\* mutant: the digest covers the parent link too
assemble_message_linked(sender, parent, content, timestamp) ==
    LET digest == compute_digest([parent |-> parent, content |-> content])
        signature == sign_digest(sender, digest)
    IN  [sender |-> sender, parent |-> parent, content |-> content,
         digest |-> digest, signature |-> signature, timestamp |-> timestamp]

assemble_message(sender, parent, content, timestamp) ==
    LET digest == compute_digest(content)
        signature == sign_digest(sender, digest)
    IN  [sender |-> sender, parent |-> parent, content |-> content,
         digest |-> digest, signature |-> signature, timestamp |-> timestamp]

(***************************************************************************)
(* fuse.rs                                                                 *)
(***************************************************************************)
\* the RetinaBody inside Content::Retina
RetinaBody(c) ==
    [omega_id |-> c.omega_id, basis_spec |-> c.basis_spec, a_hat |-> c.a_hat,
     lambda |-> c.lambda, foveation |-> c.foveation, cert |-> c.cert]

NoFused == [kind |-> "None"]

\* mutant: the certificate of the first capture is kept as it is
fuse_fixations_keep(retinas) ==
    IF retinas = <<>> THEN NoFused
    ELSE [kind |-> "Some", fused |-> retinas[1],
          fused_digest |-> compute_digest(retinas[1])]

\* mutant: the last capture is the representative
fuse_fixations_last(retinas) ==
    IF retinas = <<>> THEN NoFused
    ELSE LET first == retinas[Len(retinas)]
             j == Len(retinas)
             new_drop == F64DivInt(F64(<<0, 0, 0, 0, 1>>), j)
             fused == [first EXCEPT !.cert.fused_variance_drop = new_drop]
         IN  [kind |-> "Some", fused |-> fused,
              fused_digest |-> compute_digest(fused)]

\* fuse_fixations over a sequence of RetinaBody values; retinas.len() as f64
\* is exact, so j stays the whole number it is.  cert.fused_variance_drop is
\* the one f64 held in units of 2^-120 (0.0 reads the same in either unit)
fuse_fixations(retinas) ==
    IF retinas = <<>> THEN NoFused
    ELSE LET first == retinas[1]
             j == Len(retinas)
             fused ==
                 IF j > 0
                 THEN LET new_drop == F64DivInt(F64(<<0, 0, 0, 0, 1>>), j)
                      IN  [first EXCEPT !.cert.fused_variance_drop = new_drop]
                 ELSE first
             dig == compute_digest(fused)
         IN  [kind |-> "Some", fused |-> fused, fused_digest |-> dig]

(***************************************************************************)
(* verify.rs                                                               *)
(***************************************************************************)
\* mutant: the signature is not recomputed
verify_digest_nosig(msg) == compute_digest(msg.content) = msg.digest

\* mutant: the digest is not recomputed
verify_digest_sigonly(msg) ==
    msg.signature = <<"SIG", msg.sender, msg.digest>>

verify_digest(msg) ==
    LET d_local == compute_digest(msg.content) IN
    IF d_local # msg.digest THEN FALSE
    ELSE LET expected_sig == <<"SIG", msg.sender, msg.digest>>
         IN  msg.signature = expected_sig

\* mutant: the parent is not looked up
verify_thread_any(msg, inbox) == TRUE

\* mutant: the parent must also carry an earlier timestamp
verify_thread_older(msg, inbox) ==
    IF msg.parent = zero_digest THEN TRUE
    ELSE \E i \in 1..Len(inbox) :
            /\ inbox[i].digest = msg.parent
            /\ inbox[i].timestamp < msg.timestamp

verify_thread(msg, inbox) ==
    IF msg.parent = zero_digest THEN TRUE
    ELSE \E i \in 1..Len(inbox) : inbox[i].digest = msg.parent

(***************************************************************************)
(* transport_mem.rs                                                        *)
(***************************************************************************)
\* MemoryTransport: the set peers and the map queues (a function on its keys)
NewTransport == [peers |-> {}, queues |-> [x \in {} |-> <<>>]]

register_peer(b, who) ==
    [peers |-> b.peers \cup {who},
     queues |-> [x \in (DOMAIN b.queues) \cup {who} |->
                    IF x \in DOMAIN b.queues THEN b.queues[x] ELSE <<>>]]

enqueue(b, to, msg) ==
    IF to \in DOMAIN b.queues
    THEN [b EXCEPT !.queues[to] = Append(@, msg)]
    ELSE b

\* mutant: an unknown recipient is given a queue
send_to_create(b, to, msg) == enqueue(register_peer(b, to), to, msg)

send_to(b, to, msg) ==
    IF to \in b.peers THEN enqueue(b, to, msg) ELSE b

\* mutant: the sender is a target too
broadcast_all(b, from, msg) ==
    [b EXCEPT !.queues = [x \in DOMAIN b.queues |-> Append(b.queues[x], msg)]]

\* mutant: the copy goes to the front of each target's queue
broadcast_front(b, from, msg) ==
    LET targets == {p \in b.peers : p # from}
    IN  [b EXCEPT !.queues =
            [x \in DOMAIN b.queues |->
                IF x \in targets THEN <<msg>> \o b.queues[x] ELSE b.queues[x]]]

\* every target gets one copy; the targets are distinct, so the order in
\* which the loop visits them does not show in the result
broadcast(b, from, msg) ==
    LET targets == {p \in b.peers : p # from}
    IN  [b EXCEPT !.queues =
            [x \in DOMAIN b.queues |->
                IF x \in targets THEN Append(b.queues[x], msg) ELSE b.queues[x]]]

\* mutant: the queue is not cleared
drain_inbound_bus_keep(b, me) == b

\* mutant: the queue is handed over newest first
drain_inbound_msgs_lifo(b, me) ==
    IF me \in DOMAIN b.queues
    THEN [i \in 1..Len(b.queues[me]) |-> b.queues[me][Len(b.queues[me]) + 1 - i]]
    ELSE <<>>

\* the drained messages, and the bus after the drain
drain_inbound_msgs(b, me) ==
    IF me \in DOMAIN b.queues THEN b.queues[me] ELSE <<>>

drain_inbound_bus(b, me) ==
    IF me \in DOMAIN b.queues THEN [b EXCEPT !.queues[me] = <<>>] ELSE b

(***************************************************************************)
(* node.rs                                                                 *)
(***************************************************************************)
\* NodeMessenger without its bus handle (the one shared bus is a variable)
\* and without peers, which add_peer pushes to and no method reads
NewNode(id) ==
    [id |-> id, inbox |-> <<>>, rep |-> NewBook,
     retina_store |-> [x \in {} |-> <<>>]]

\* mutant: the accepted message goes to the front of the inbox
accept_and_reward_front(self, msg) ==
    [self EXCEPT
        !.inbox = <<msg>> \o @,
        !.retina_store =
            IF msg.content.kind = "Retina"
            THEN [d \in (DOMAIN @) \cup {msg.digest} |->
                     IF d = msg.digest THEN msg.content ELSE @[d]]
            ELSE @,
        !.rep = reward(@, msg.sender)]

\* mutant: content of every kind is cached
accept_and_reward_cache_all(self, msg) ==
    [self EXCEPT
        !.inbox = Append(@, msg),
        !.retina_store =
            [d \in (DOMAIN @) \cup {msg.digest} |->
                IF d = msg.digest THEN msg.content ELSE @[d]],
        !.rep = reward(@, msg.sender)]

accept_and_reward(self, msg) ==
    [self EXCEPT
        !.inbox = Append(@, msg),
        !.retina_store =
            IF msg.content.kind = "Retina"
            THEN [d \in (DOMAIN @) \cup {msg.digest} |->
                     IF d = msg.digest THEN msg.content ELSE @[d]]
            ELSE @,
        !.rep = reward(@, msg.sender)]

\* mutant: a rejected capture is cached all the same
reject_and_punish_cache(self, msg) ==
    [self EXCEPT
        !.retina_store =
            IF msg.content.kind = "Retina"
            THEN [d \in (DOMAIN @) \cup {msg.digest} |->
                     IF d = msg.digest THEN msg.content ELSE @[d]]
            ELSE @,
        !.rep = punish(@, msg.sender)]

\* mutant: a rejection costs two steps
reject_and_punish_twice(self, msg) ==
    [self EXCEPT !.rep = punish(punish(@, msg.sender), msg.sender)]

\* mutant: a rejection costs nothing
reject_only(self, msg) == self

reject_and_punish(self, msg) ==
    [self EXCEPT !.rep = punish(@, msg.sender)]

NoReason == "accepted"

\* mutant: the reputation gate is looked at first
reject_reason_trust_first(self, msg) ==
    IF F64Lt(get(self.rep, msg.sender), admit_threshold)
    THEN "sender below trust threshold"
    ELSE IF ~verify_digest(msg) THEN "bad digest/signature"
    ELSE IF ~verify_thread(msg, self.inbox) THEN "missing parent"
    ELSE NoReason

\* the reason receive_internal hands to reject_and_punish, which writes it
\* to stderr with the node's id and the digest; NoReason if it accepts
reject_reason(self, msg) ==
    IF ~verify_digest(msg) THEN "bad digest/signature"
    ELSE IF ~verify_thread(msg, self.inbox) THEN "missing parent"
    ELSE LET sender_rep == get(self.rep, msg.sender)
         IN  IF F64Lt(sender_rep, admit_threshold)
             THEN "sender below trust threshold"
             ELSE NoReason

\* mutant: a sender exactly at the threshold is turned away
receive_internal_strict(self, msg) ==
    IF ~verify_digest(msg) THEN reject_and_punish(self, msg)
    ELSE IF ~verify_thread(msg, self.inbox) THEN reject_and_punish(self, msg)
    ELSE LET sender_rep == get(self.rep, msg.sender)
         IN  IF ~F64Lt(admit_threshold, sender_rep)
             THEN reject_and_punish(self, msg)
             ELSE accept_and_reward(self, msg)

\* mutant: a message whose digest the inbox already holds is dropped
receive_internal_dedup(self, msg) ==
    IF ~verify_digest(msg) THEN reject_and_punish(self, msg)
    ELSE IF ~verify_thread(msg, self.inbox) THEN reject_and_punish(self, msg)
    ELSE LET sender_rep == get(self.rep, msg.sender)
         IN  IF F64Lt(sender_rep, admit_threshold)
             THEN reject_and_punish(self, msg)
             ELSE IF \E i \in 1..Len(self.inbox) : self.inbox[i].digest = msg.digest
                  THEN self
                  ELSE accept_and_reward(self, msg)

\* mutant: a valid message of a sender below the threshold is turned away
\* but earns the sender a reward step
receive_internal_probation(self, msg) ==
    IF ~verify_digest(msg) THEN reject_and_punish(self, msg)
    ELSE IF ~verify_thread(msg, self.inbox) THEN reject_and_punish(self, msg)
    ELSE LET sender_rep == get(self.rep, msg.sender)
         IN  IF F64Lt(sender_rep, admit_threshold)
             THEN [self EXCEPT !.rep = reward(@, msg.sender)]
             ELSE accept_and_reward(self, msg)

\* mutant: the reputation gate is skipped
receive_internal_ungated(self, msg) ==
    IF ~verify_digest(msg) THEN reject_and_punish(self, msg)
    ELSE IF ~verify_thread(msg, self.inbox) THEN reject_and_punish(self, msg)
    ELSE accept_and_reward(self, msg)

\* the node after receive_internal
receive_internal(self, msg) ==
    IF ~verify_digest(msg) THEN reject_and_punish(self, msg)
    ELSE IF ~verify_thread(msg, self.inbox) THEN reject_and_punish(self, msg)
    ELSE LET sender_rep == get(self.rep, msg.sender)
         IN  IF F64Lt(sender_rep, admit_threshold)
             THEN reject_and_punish(self, msg)
             ELSE accept_and_reward(self, msg)

(***************************************************************************)
(* State                                                                   *)
(***************************************************************************)
VARIABLES
    node,       \* the NodeMessenger values, by identity
    bus,        \* the shared MemoryTransport
    polling,    \* the node inside poll()'s for loop, or None
    inbound,    \* poll()'s local: the drained messages not yet processed
    ops         \* calls made so far that the bounds count

vars == <<node, bus, polling, inbound, ops>>

Ids == {"A", "B", "C"}          \* the identities of the tests
None == "none"
Panicked == "panicked"       \* the thread has unwound out of a method

Alive == DOMAIN node

RECURSIVE Construct(_, _, _)
\* NodeMessenger::new for each identity of ids, on bus b
Construct(ids, n, b) ==
    IF ids = {} THEN [node |-> n, bus |-> b]
    ELSE LET id == CHOOSE x \in ids : TRUE
         IN  Construct(ids \ {id},
                       [x \in (DOMAIN n) \cup {id} |->
                           IF x = id THEN NewNode(id) ELSE n[x]],
                       register_peer(b, id))

\* the bus and the nodes of ids constructed, nothing sent
Started(ids) ==
    LET c == Construct(ids, [x \in {} |-> NewNode(x)], NewTransport)
    IN  /\ node = c.node
        /\ bus = c.bus
        /\ polling = None
        /\ inbound = <<>>
        /\ ops = 0

Idle == polling = None

SeqRange(q) == {q[i] : i \in 1..Len(q)}

\* the messages held anywhere
InboxMsgs == UNION {SeqRange(node[n].inbox) : n \in Alive}
QueueMsgs == UNION {SeqRange(bus.queues[p]) : p \in DOMAIN bus.queues}

(***************************************************************************)
(* Operations                                                              *)
(***************************************************************************)
\* NodeMessenger::new(id, bus), the caller keeping the node it returns as the
\* node of that id: an empty node whatever was there, while register_peer
\* leaves the queue of an id that has one as it is
New(id) ==
    /\ Idle
    /\ node' = [x \in Alive \cup {id} |-> IF x = id THEN NewNode(id) ELSE node[x]]
    /\ bus' = register_peer(bus, id)
    /\ UNCHANGED <<polling, inbound, ops>>

\* mutant: the message is handed to every node directly, not through the bus
Originate_direct(n, msg) ==
    /\ node' = [k \in Alive |-> receive_internal(node[k], msg)]
    /\ bus' = broadcast(bus, n, msg)

\* mutant: a node takes its own message without running its receive rules
Originate_trusting(n, msg) ==
    /\ node' = [node EXCEPT ![n] = accept_and_reward(@, msg)]
    /\ bus' = broadcast(bus, n, msg)

\* mutant: a message its own sender rejected is not broadcast
Originate_gated(n, msg) ==
    /\ node' = [node EXCEPT ![n] = receive_internal(@, msg)]
    /\ bus' = IF reject_reason(node[n], msg) = NoReason
              THEN broadcast(bus, n, msg)
              ELSE bus

\* the tail of send and of broadcast_status: receive locally, then broadcast
Originate(n, msg) ==
    /\ node' = [node EXCEPT ![n] = receive_internal(@, msg)]
    /\ bus' = broadcast(bus, n, msg)

\* the message send(parent, ev) assembles when now_timestamp() returns now
send_msg(n, parent, ev, now) ==
    LET content == phi_collapse(ev)
    IN  assemble_message(n, parent, content, now)

\* NodeMessenger::send(parent, ev)
Send(n, parent, ev, now) ==
    /\ Idle
    /\ n \in Alive
    /\ Originate(n, send_msg(n, parent, ev, now))
    /\ ops' = ops + 1
    /\ UNCHANGED <<polling, inbound>>

\* mutant: a failed store write is passed over and the send goes on
SendPut_lenient(n, parent, ev, now, put_ok) == Send(n, parent, ev, now)

\* NodeMessenger::send(parent, ev) with the outcome of store::put, which
\* only Blob evidence calls: on Err, collapse_evidence's expect panics before
\* send has touched anything, and the panic leaves send without a value
SendPut(n, parent, ev, now, put_ok) ==
    IF ev.kind = "Blob" /\ ~put_ok
    THEN /\ Idle
         /\ n \in Alive
         /\ polling' = Panicked
         /\ UNCHANGED <<node, bus, inbound, ops>>
    ELSE Send(n, parent, ev, now)

\* mutant: a receipt is assembled as a root
ack_msg_root(n, event, parent_digest, now) ==
    LET evt == [event |-> event, digest_ack |-> parent_digest, at |-> now]
        ev == [kind |-> "StatusIntent", evt |-> evt]
        content == phi_collapse(ev)
    IN  assemble_message(n, zero_digest, content, now)

\* the message ack_delivered / ack_read hand to broadcast_status and it
\* assembles (event is "Delivered" or "Read")
ack_msg(n, event, parent_digest, now) ==
    LET evt == [event |-> event, digest_ack |-> parent_digest, at |-> now]
        ev == [kind |-> "StatusIntent", evt |-> evt]
        content == phi_collapse(ev)
    IN  assemble_message(n, parent_digest, content, now)

\* NodeMessenger::ack_delivered(parent_digest)
AckDelivered(n, parent_digest, now) ==
    /\ Idle
    /\ n \in Alive
    /\ Originate(n, ack_msg(n, "Delivered", parent_digest, now))
    /\ ops' = ops + 1
    /\ UNCHANGED <<polling, inbound>>

\* NodeMessenger::ack_read(parent_digest)
AckRead(n, parent_digest, now) ==
    /\ Idle
    /\ n \in Alive
    /\ Originate(n, ack_msg(n, "Read", parent_digest, now))
    /\ ops' = ops + 1
    /\ UNCHANGED <<polling, inbound>>

\* NodeMessenger::poll, up to its for loop
PollDrain(n) ==
    /\ Idle
    /\ n \in Alive
    /\ inbound' = drain_inbound_msgs(bus, n)
    /\ bus' = drain_inbound_bus(bus, n)
    /\ polling' = IF inbound' = <<>> THEN None ELSE n
    /\ UNCHANGED <<node, ops>>

\* mutant: the loop takes the newest drained message first
PollStep_newest ==
    /\ polling \in Alive
    /\ node' = [node EXCEPT ![polling] = receive_internal(@, inbound[Len(inbound)])]
    /\ inbound' = SubSeq(inbound, 1, Len(inbound) - 1)
    /\ polling' = IF inbound' = <<>> THEN None ELSE polling
    /\ UNCHANGED <<bus, ops>>

\* mutant: the loop stops after the first drained message
PollStep_first_only ==
    /\ polling \in Alive
    /\ node' = [node EXCEPT ![polling] = receive_internal(@, Head(inbound))]
    /\ inbound' = <<>>
    /\ polling' = None
    /\ UNCHANGED <<bus, ops>>

\* mutant: a message the loop rejects goes back to the node's own queue
PollStep_retry ==
    /\ polling \in Alive
    /\ node' = [node EXCEPT ![polling] = receive_internal(@, Head(inbound))]
    /\ inbound' = Tail(inbound)
    /\ polling' = IF inbound' = <<>> THEN None ELSE polling
    /\ bus' = IF reject_reason(node[polling], Head(inbound)) = NoReason
              THEN bus
              ELSE enqueue(bus, polling, Head(inbound))
    /\ ops' = ops

\* one iteration of poll's for loop
PollStep ==
    /\ polling \in Alive
    /\ node' = [node EXCEPT ![polling] = receive_internal(@, Head(inbound))]
    /\ inbound' = Tail(inbound)
    /\ polling' = IF inbound' = <<>> THEN None ELSE polling
    /\ UNCHANGED <<bus, ops>>

\* NodeMessenger::heal
Heal(n) ==
    /\ Idle
    /\ n \in Alive
    /\ UNCHANGED vars

\* NodeMessenger::decay_reputation
DecayReputation(n) ==
    /\ Idle
    /\ n \in Alive
    /\ node' = [node EXCEPT ![n].rep = decay(@)]
    /\ ops' = ops + 1
    /\ UNCHANGED <<bus, polling, inbound>>

\* Transport::send_to(to, msg) called on the shared bus by any holder of it
SendTo(to, msg) ==
    /\ Idle
    /\ bus' = send_to(bus, to, msg)
    /\ ops' = ops + 1
    /\ UNCHANGED <<node, polling, inbound>>

(***************************************************************************)
(* Inputs                                                                  *)
(***************************************************************************)
Times == {0}                    \* what now_timestamp() returns

RawTexts == { <<" ", "a", " ", " ", "b", "\t">> }

Captures ==
    { [kind |-> "RawRetinaCapture", samples |-> <<>>, lambda |-> Finite(1),
       foveation_cfg |-> <<Finite(2), Finite(5), Finite(5)>>, basis_cfg |-> <<32, 32>>,
       cert_seed |-> 42] }

SendEvidence == {[kind |-> "DraftText", raw |-> r] : r \in RawTexts} \cup Captures

\* parent digests a caller may pass: zero, one nobody has, one it has seen
ParentChoices ==
    {zero_digest, bogus_digest} \cup {m.digest : m \in InboxMsgs \cup QueueMsgs}

\* messages a holder of the bus can enqueue with send_to: a root text
\* assembled for s, and that message altered after assembly: the content
\* replaced (digest stale), the digest replaced, the sender replaced by t
\* (signature stale)
OtherContent == [kind |-> "Text", canonical_text |-> <<"x">>]

Genuine(s) == send_msg(s, zero_digest, [kind |-> "DraftText", raw |-> <<"a">>], 0)

Tampered(s, t) ==
    { [Genuine(s) EXCEPT !.content = OtherContent],
      [Genuine(s) EXCEPT !.digest = compute_digest(OtherContent)],
      [Genuine(t) EXCEPT !.sender = s] }

(***************************************************************************)
(* Spec: every operation with broad inputs, nodes A and B, a few calls.    *)
(* "C" is an identity without a node: nothing is registered for it.        *)
(***************************************************************************)
MaxOps == 2         \* send, ack_*, send_to and decay_reputation calls

Init == Started({"A", "B"})

Injected == {Genuine("A")} \cup Tampered("A", "B")

Next ==
    \/ \E n \in Ids, ev \in SendEvidence, now \in Times :
          \E parent \in ParentChoices :
             ops < MaxOps /\ Send(n, parent, ev, now)
    \/ \E n \in Ids, now \in Times :
          \E d \in ParentChoices :
             ops < MaxOps /\ AckDelivered(n, d, now)
    \/ \E n \in Ids, now \in Times :
          \E d \in ParentChoices :
             ops < MaxOps /\ AckRead(n, d, now)
    \/ \E to \in Ids, msg \in Injected :
          ops < MaxOps /\ SendTo(to, msg)
    \/ \E n \in Ids : PollDrain(n)
    \/ PollStep
    \/ \E n \in Ids : Heal(n)
    \/ \E n \in Ids : ops < MaxOps /\ DecayReputation(n)

Spec == Init /\ [][Next]_vars

(***************************************************************************)
(* SpecFlow: the three nodes of the tests; C talks (root texts, orphans)   *)
(* and is impersonated on the bus, A and B observe.  Narrow inputs, more   *)
(* calls: an observer's score for C moves through several steps.           *)
(***************************************************************************)
MaxFlowOps == 5     \* send, send_to and decay_reputation calls

InitFlow == Started(Ids)

FlowEvidence == [kind |-> "DraftText", raw |-> <<"a">>]

NextFlow ==
    \/ \E parent \in {zero_digest, bogus_digest} :
          ops < MaxFlowOps /\ Send("C", parent, FlowEvidence, 0)
    \/ \E msg \in Tampered("C", "B") :
          ops < MaxFlowOps /\ SendTo("A", msg)
    \/ \E n \in Ids : PollDrain(n)
    \/ PollStep
    \/ ops < MaxFlowOps /\ DecayReputation("A")

SpecFlow == InitFlow /\ [][NextFlow]_vars

(***************************************************************************)
(* SpecRep: reward and punish called directly on node A's ReputationBook   *)
(* (a pub field with pub methods) and decay_reputation, in any order.      *)
(***************************************************************************)
MaxRepOps == 6      \* reward, punish and decay_reputation calls

RepReward(n, who) ==
    /\ node' = [node EXCEPT ![n].rep = reward(@, who)]
    /\ ops' = ops + 1
    /\ UNCHANGED <<bus, polling, inbound>>

RepPunish(n, who) ==
    /\ node' = [node EXCEPT ![n].rep = punish(@, who)]
    /\ ops' = ops + 1
    /\ UNCHANGED <<bus, polling, inbound>>

InitRep == Started({"A"})

NextRep ==
    \/ \E who \in {"B", "C"} : ops < MaxRepOps /\ RepReward("A", who)
    \/ \E who \in {"B", "C"} : ops < MaxRepOps /\ RepPunish("A", who)
    \/ ops < MaxRepOps /\ DecayReputation("A")

SpecRep == InitRep /\ [][NextRep]_vars

(***************************************************************************)
(* SpecBus: the transport seen through sends and polls.  A and B are there *)
(* from the start, C is created at any moment and may be created anew;     *)
(* every send is a root, a text or a typing status, stamped with the       *)
(* number of sends before it, so no two copies are alike.                  *)
(***************************************************************************)
MaxBusOps == 3      \* send calls

\* a status a caller hands to send: a variant of StatusEvent without fields
TypingEvidence == [kind |-> "StatusIntent", evt |-> [event |-> "TypingStart"]]

InitBus == Started({"A", "B"})

NextBus ==
    \/ New("C")
    \/ \E n \in Ids, ev \in {FlowEvidence, TypingEvidence} :
          ops < MaxBusOps /\ Send(n, zero_digest, ev, ops)
    \/ \E n \in Ids : PollDrain(n)
    \/ PollStep

SpecBus == InitBus /\ [][NextBus]_vars

(***************************************************************************)
(* SpecLive: SpecBus under fair scheduling.  Every participant polls again *)
(* and again: a poll that has something to drain is made sooner or later   *)
(* (PollDrain is strongly fair, another node's poll may be in progress),   *)
(* and poll's for loop runs to the end of its batch.                       *)
(***************************************************************************)
MaxLiveOps == 2     \* send calls

InitLive == Started({"A", "B"})

NextLive ==
    \/ New("C")
    \/ \E n \in Ids : ops < MaxLiveOps /\ Send(n, zero_digest, FlowEvidence, ops)
    \/ \E n \in Ids : PollDrain(n)
    \/ PollStep

\* poll's for loop moves on to the next drained message: what a PollStep does
\* to the batch, whatever the verdict on its head
PollLoop ==
    /\ polling \in Alive
    /\ inbound' = Tail(inbound)

SpecLive ==
    /\ InitLive
    /\ [][NextLive]_vars
    /\ WF_inbound(PollLoop)
    /\ \A n \in Ids : SF_vars(PollDrain(n))

(***************************************************************************)
(* SpecChat: the conversation of the tests.  A sends root texts; B replies *)
(* with captures to messages it holds and acknowledges digests (one it     *)
(* holds, zero, or one nobody has); all three poll.  Every call is stamped *)
(* with the number of calls before it.                                     *)
(***************************************************************************)
MaxChatOps == 3     \* send, ack_delivered and ack_read calls

InitChat == Started(Ids)

\* the digests of the messages node n holds
Held(n) == {m.digest : m \in SeqRange(node[n].inbox)}

NextChat ==
    \/ ops < MaxChatOps /\ Send("A", zero_digest, FlowEvidence, ops)
    \/ \E parent \in Held("B"), ev \in Captures :
          ops < MaxChatOps /\ Send("B", parent, ev, ops)
    \/ \E d \in Held("B") \cup {zero_digest, bogus_digest} :
          ops < MaxChatOps /\ AckDelivered("B", d, ops)
    \/ \E d \in Held("B") \cup {zero_digest, bogus_digest} :
          ops < MaxChatOps /\ AckRead("B", d, ops)
    \/ \E n \in Ids : PollDrain(n)
    \/ PollStep

SpecChat == InitChat /\ [][NextChat]_vars

(***************************************************************************)
(* SpecBlob: A and B send binary payloads, roots or replies to what they   *)
(* hold; the byte store takes the write or fails it.                       *)
(***************************************************************************)
MaxBlobOps == 2     \* send calls that return

BlobEvidence ==
    {[kind |-> "Blob", bytes |-> b, mime |-> "image/png"] : b \in {<<>>, <<137, 80>>}}

InitBlob == Started({"A", "B"})

NextBlob ==
    \/ \E n \in {"A", "B"}, ev \in BlobEvidence, put_ok \in BOOLEAN :
          \E parent \in Held(n) \cup {zero_digest} :
             ops < MaxBlobOps /\ SendPut(n, parent, ev, 0, put_ok)
    \/ \E n \in Ids : PollDrain(n)
    \/ PollStep

SpecBlob == InitBlob /\ [][NextBlob]_vars

(***************************************************************************)
(* SpecText: A's first message is a draft text, any string of up to        *)
(* MaxTextLen characters over letters and whitespace; B and C poll it.     *)
(***************************************************************************)
MaxTextLen == 4     \* characters of a draft text

TextAlphabet == {"a", "b", " ", "\r"}

Texts == UNION {[1..k -> TextAlphabet] : k \in 0..MaxTextLen}

Draft(raw) == [kind |-> "DraftText", raw |-> raw]

InitText == Started(Ids)

NextText ==
    \/ \E raw \in Texts :
          node["A"].inbox = <<>> /\ Send("A", zero_digest, Draft(raw), 0)
    \/ \E n \in Ids : PollDrain(n)
    \/ PollStep

SpecText == InitText /\ [][NextText]_vars

(***************************************************************************)
(* SpecFuse: A sends root texts and B, once it holds one, replies with up  *)
(* to MaxFuse captures of two kinds; both poll.  Calls are stamped as in    *)
(* SpecChat.                                                               *)
(***************************************************************************)
MaxFuse == 5        \* captures handed to fuse_fixations at once

\* the RetinaBody values of the Retina messages of q, in q's order
RECURSIVE RetinasOf(_)
RetinasOf(q) ==
    IF q = <<>> THEN <<>>
    ELSE IF Head(q).content.kind = "Retina"
         THEN <<RetinaBody(Head(q).content)>> \o RetinasOf(Tail(q))
         ELSE RetinasOf(Tail(q))

\* two fixations that differ in what collapse keeps of them (lambda)
FuseCaptures ==
    Captures \cup {[c EXCEPT !.lambda = Finite(2)] : c \in Captures}

InitFuse == Started({"A", "B"})

NextFuse ==
    \/ node["A"].inbox = <<>> /\ Send("A", zero_digest, FlowEvidence, ops)
    \/ \E parent \in Held("B"), ev \in FuseCaptures :
          /\ Len(RetinasOf(node["B"].inbox)) < MaxFuse
          /\ Send("B", parent, ev, ops)
    \/ \E n \in Ids : PollDrain(n)
    \/ PollStep

SpecFuse == InitFuse /\ [][NextFuse]_vars

(***************************************************************************)
(* SpecHeal: A sends a root text and a reply to it in either order, so the *)
(* reply can reach B before its parent; both nodes poll, heal and decay.   *)
(* Calls are stamped as in SpecChat.                                       *)
(***************************************************************************)
MaxHealOps == 3     \* send and decay_reputation calls

ReplyEvidence == [kind |-> "DraftText", raw |-> <<"b">>]

\* the digest a root text assembled from FlowEvidence carries
RootDigest == compute_digest(phi_collapse(FlowEvidence))

InitHeal == Started({"A", "B"})

NextHeal ==
    \/ ops < MaxHealOps /\ Send("A", zero_digest, FlowEvidence, ops)
    \/ ops < MaxHealOps /\ Send("A", RootDigest, ReplyEvidence, ops)
    \/ \E n \in Ids : PollDrain(n)
    \/ PollStep
    \/ \E n \in Ids : Heal(n)
    \/ \E n \in Ids : ops < MaxHealOps /\ DecayReputation(n)

SpecHeal == InitHeal /\ [][NextHeal]_vars

(***************************************************************************)
(* SpecHonest: A, B and C are registered before anything is sent; each     *)
(* sends texts and receipts whose parent is zero or the digest of a        *)
(* message it holds at that moment; the bus carries the copies unaltered.  *)
(* Calls are stamped as in SpecChat.                                       *)
(***************************************************************************)
MaxHonestOps == 2   \* send and ack_delivered calls

InitHonest == Started(Ids)

NextHonest ==
    \/ \E n \in Ids : \E parent \in Held(n) \cup {zero_digest} :
          ops < MaxHonestOps /\ Send(n, parent, FlowEvidence, ops)
    \/ \E n \in Ids : \E d \in Held(n) \cup {zero_digest} :
          ops < MaxHonestOps /\ AckDelivered(n, d, ops)
    \/ \E n \in Ids : PollDrain(n)
    \/ PollStep

SpecHonest == InitHonest /\ [][NextHonest]_vars

(***************************************************************************)
(* SpecDup: one message many times.  A sends the same root text (same      *)
(* content, same timestamp) and any holder of the bus enqueues copies of   *)
(* it for A and B with send_to; both poll.                                 *)
(***************************************************************************)
MaxCopies == 4      \* send and send_to calls

InitDup == Started({"A", "B"})

NextDup ==
    \/ ops < MaxCopies /\ Send("A", zero_digest, FlowEvidence, 0)
    \/ \E to \in {"A", "B"} : ops < MaxCopies /\ SendTo(to, Genuine("A"))
    \/ \E n \in Ids : PollDrain(n)
    \/ PollStep

SpecDup == InitDup /\ [][NextDup]_vars

(***************************************************************************)
(* SpecParent: A and B send the same text, as a root and as a reply to it, *)
(* and a holder of the bus takes any message around, replaces its parent   *)
(* field and enqueues the result for B with send_to; both poll.  Calls are *)
(* stamped as in SpecChat.                                                 *)
(***************************************************************************)
MaxParentOps == 3   \* send and send_to calls

\* the parent fields in play: zero, one nobody has, the digest of the text
Parents == {zero_digest, bogus_digest, RootDigest}

InitParent == Started({"A", "B"})

NextParent ==
    \/ \E n \in Ids : \E parent \in {zero_digest, RootDigest} :
          ops < MaxParentOps /\ Send(n, parent, FlowEvidence, ops)
    \/ \E m \in InboxMsgs \cup QueueMsgs : \E parent \in Parents :
          ops < MaxParentOps /\ SendTo("B", [m EXCEPT !.parent = parent])
    \/ \E n \in Ids : PollDrain(n)
    \/ PollStep

SpecParent == InitParent /\ [][NextParent]_vars

(***************************************************************************)
(* Stating the claims: the acceptance run a step makes                     *)
(***************************************************************************)
Half == F64(<<0, 0, 0, 16384>>)                     \* 0.5
One == F64(<<0, 0, 0, 0, 1>>)                       \* 1.0
Zero == F64(<<>>)                                   \* 0.0
Threshold == F64(<<19648, 6553, 13107, 9830>>)      \* 0.30
RewardStep == F64(<<6560, 13107, 26214, 3276>>)     \* 0.1
PunishStep == F64(<<13120, 26214, 19660, 6553>>)    \* 0.2

\* a <= b
F64Le(a, b) == ~F64Lt(b, a)

\* what node n's book says of who
ScoreOf(n, who) ==
    IF who \in DOMAIN node[n].rep THEN node[n].rep[who] ELSE Half
ScoreOfNext(n, who) ==
    IF who \in DOMAIN node'[n].rep THEN node'[n].rep[who] ELSE Half

\* the three conditions of acceptance, on the state before the run
IntegrityOK(m) ==
    /\ m.digest = <<m.content>>
    /\ m.signature = <<"SIG", m.sender, m.digest>>
CausalityOK(n, m) ==
    \/ m.parent = <<>>
    \/ \E i \in 1..Len(node[n].inbox) : node[n].inbox[i].digest = m.parent
TrustOK(n, m) == F64Le(Threshold, ScoreOf(n, m.sender))

\* this step is node n originating m (send, ack_delivered or ack_read)
Originates(n, m) == Idle /\ n \in Alive /\ ops' = ops + 1 /\ Originate(n, m)

\* the last message of each queue that this step made one longer
Enqueued ==
    { bus'.queues[p][Len(bus'.queues[p])] :
        p \in { x \in DOMAIN bus.queues :
                  Len(bus'.queues[x]) = Len(bus.queues[x]) + 1 } }

\* P(n, m) holds of every acceptance run this step makes: the message poll
\* hands to receive_internal, or the one a send or ack assembles (which the
\* step also enqueues for the other nodes)
EveryRun(P(_, _)) ==
    /\ polling # None => P(polling, Head(inbound))
    /\ polling = None /\ polling' = None /\ ops' = ops + 1 =>
          \A m \in Enqueued :
              (m.sender \in Alive /\ Originates(m.sender, m)) => P(m.sender, m)

Appended(n, m) == node'[n].inbox = Append(node[n].inbox, m)
NotAppended(n) == node'[n].inbox = node[n].inbox

\* C1: a message run through a node's acceptance path is appended to that
\* node's inbox iff its digest and signature recompute, its parent is zero or
\* the digest of an inbox message, and the node's score for its sender is
\* at least the threshold, all on the state before; else the inbox is as it was
C1_Run(n, m) ==
    IF IntegrityOK(m) /\ CausalityOK(n, m) /\ TrustOK(n, m)
    THEN Appended(n, m)
    ELSE NotAppended(n)
C1_AcceptIffAllThree == [][EveryRun(C1_Run)]_vars

\* some inbox holds a message while the same node has punished a sender to
\* below the threshold (runs of both outcomes have happened, trust included)
C1_Witness ==
    \E n \in Alive :
        /\ node[n].inbox # <<>>
        /\ \E who \in DOMAIN node[n].rep : F64Lt(node[n].rep[who], Threshold)
        /\ ops = MaxFlowOps

\* C2: every inbox message with a non-zero parent has, at a strictly earlier
\* inbox position, a message whose digest is that parent
C2_CausalClosure ==
    \A n \in Alive : \A i \in 1..Len(node[n].inbox) :
        node[n].inbox[i].parent # <<>> =>
            \E j \in 1..(i - 1) :
                node[n].inbox[j].digest = node[n].inbox[i].parent

C2_Witness ==
    \E n \in Alive : \E i \in 1..Len(node[n].inbox) :
        node[n].inbox[i].parent # <<>>

\* one reward step and one punish step from a score
Rewarded(x) == F64Min(F64Add(x, RewardStep), One)
Punished(x) == F64Max(F64Sub(x, PunishStep), Zero)

\* P(n, m) holds of every step in which node n originates message m
EveryOwnRun(P(_, _)) ==
    polling = None /\ polling' = None /\ ops' = ops + 1 =>
        \A m \in Enqueued :
            (m.sender \in Alive /\ Originates(m.sender, m)) => P(m.sender, m)

C3_Stated(n, m) ==
    /\ Appended(n, m)
    /\ ScoreOfNext(n, n) = Rewarded(ScoreOf(n, n))

C3_Gated(n, m) ==
    /\ IntegrityOK(m)
    /\ IF CausalityOK(n, m) /\ TrustOK(n, m)
       THEN /\ Appended(n, m)
            /\ ScoreOfNext(n, n) = Rewarded(ScoreOf(n, n))
       ELSE /\ NotAppended(n)
            /\ ScoreOfNext(n, n) = Punished(ScoreOf(n, n))

\* C3 as stated: after any send the freshly assembled message is in the
\* sender's own inbox and the sender has rewarded itself, whatever the parent
\* and whatever its own score for itself
C3_SelfAlwaysAccepted ==
    [][EveryOwnRun(C3_Stated)]_vars

\* C3 amended: a node's own send goes through the same gate.  The freshly
\* assembled message always passes integrity; it is appended to the sender's
\* inbox and the sender rewards itself iff the parent is zero or the digest
\* of a message in its inbox and its own score for itself is at least the
\* threshold; otherwise the message is not stored and the sender punishes itself
C3_SelfGated ==
    [][EveryOwnRun(C3_Gated)]_vars

\* C has accepted a send of its own and has since punished itself to below
\* the threshold
C3_Witness ==
    /\ \E i \in 1..Len(node["C"].inbox) : node["C"].inbox[i].sender = "C"
    /\ F64Lt(ScoreOf("C", "C"), Threshold)

\* C4: a run of the acceptance path moves the score of the message's claimed
\* sender by one reward step (capped at 1.0) if the message is accepted and by
\* one punish step (floored at 0.0) if it is rejected, however many checks
\* fail; no other score of that book, and no other node's book, changes
C4_Run(n, m) ==
    LET accepted == IntegrityOK(m) /\ CausalityOK(n, m) /\ TrustOK(n, m)
        old == ScoreOf(n, m.sender)
    IN  /\ ScoreOfNext(n, m.sender) = IF accepted THEN Rewarded(old) ELSE Punished(old)
        /\ DOMAIN node'[n].rep = (DOMAIN node[n].rep) \cup {m.sender}
        /\ \A x \in (DOMAIN node[n].rep) \ {m.sender} :
               node'[n].rep[x] = node[n].rep[x]
        /\ \A k \in Alive \ {n} : node'[k].rep = node[k].rep
C4_OneStepForSender == [][EveryRun(C4_Run)]_vars

\* A accepted two messages of C and then rejected three; the last of them
\* found C below the threshold and its parent unknown or its digest stale
C4_Witness ==
    /\ Len(node["A"].inbox) = 2
    /\ ScoreOf("A", "C") =
          Punished(Punished(Punished(Rewarded(Rewarded(Half)))))

\* C5: a polled message that recomputes but whose parent is non-zero and is
\* the digest of no inbox message is not stored and costs its sender one punish
\* step at that observer; after C's orphan is the only call made and A and B
\* have polled, A and B each hold C one punish step below neutral
C5_Run(n, m) ==
    (/\ IntegrityOK(m)
     /\ m.parent # <<>>
     /\ \A i \in 1..Len(node[n].inbox) : node[n].inbox[i].digest # m.parent)
    => /\ NotAppended(n)
       /\ ScoreOfNext(n, m.sender) = Punished(ScoreOf(n, m.sender))
C5_Scenario ==
    (/\ ops = 1
     /\ Idle
     /\ "C" \in DOMAIN node["C"].rep
     /\ node["C"].inbox = <<>>
     /\ bus.queues["A"] = <<>>
     /\ bus.queues["B"] = <<>>)
    => /\ ScoreOf("A", "C") = Punished(Half)
       /\ ScoreOf("B", "C") = Punished(Half)
       /\ node["A"].inbox = <<>>
       /\ node["B"].inbox = <<>>
C5_OrphanRejected ==
    /\ [][polling # None => C5_Run(polling, Head(inbound))]_vars
    /\ []C5_Scenario

C5_Witness ==
    /\ ops = 1
    /\ Idle
    /\ node["C"].inbox = <<>>
    /\ "C" \in DOMAIN node["C"].rep
    /\ ScoreOf("A", "C") = Punished(Half)
    /\ ScoreOf("B", "C") = Punished(Half)

\* every message held in an inbox, in a queue or by a running poll
AllMsgs == InboxMsgs \cup QueueMsgs \cup SeqRange(inbound)
AllContents == {m.content : m \in AllMsgs} \cup {OtherContent}
\* captures that differ in lambda only: one finite, the others not
TamperCaptures ==
    {[c EXCEPT !.lambda = x] : c \in Captures, x \in {Finite(1), NaN, PosInf, NegInf}}

TamperEvidence == TamperCaptures \cup {FlowEvidence}

\* the contents and the digests an alteration may put in
TamperContents ==
    AllContents \cup {phi_collapse(ev) : ev \in TamperEvidence}
TamperDigests ==
    {zero_digest, bogus_digest} \cup {compute_digest(c) : c \in TamperContents}

\* the assembled messages: those around that are as assemble_message builds
\* them, and the root texts of A and B
Assembled ==
    { g \in AllMsgs :
        g = assemble_message(g.sender, g.parent, g.content, g.timestamp) }
    \cup {Genuine("A"), Genuine("B")}

\* g with its content, its digest or its sender changed and nothing recomputed
Alterations(g) ==
    { [g EXCEPT !.content = c] : c \in TamperContents \ {g.content} }
    \cup { [g EXCEPT !.digest = d] : d \in TamperDigests \ {g.digest} }
    \cup { [g EXCEPT !.sender = x] : x \in Ids \ {g.sender} }

(***************************************************************************)
(* SpecTamper: A sends root messages, a text or a capture whose lambda is  *)
(* finite, NaN, +inf or -inf; a holder of the bus takes any message        *)
(* around, changes its content, its digest or its sender, recomputes       *)
(* nothing and enqueues the result for B with send_to; both poll.          *)
(***************************************************************************)
MaxTamperOps == 2   \* send and send_to calls

InitTamper == Started({"A", "B"})

NextTamper ==
    \/ \E ev \in TamperEvidence :
          ops < MaxTamperOps /\ Send("A", zero_digest, ev, 0)
    \/ \E g \in AllMsgs : \E alt \in Alterations(g) :
          ops < MaxTamperOps /\ SendTo("B", alt)
    \/ \E n \in Ids : PollDrain(n)
    \/ PollStep

SpecTamper == InitTamper /\ [][NextTamper]_vars

\* C6, as claimed: an assembled message with its content changed (digest
\* stale), its digest changed, or its sender changed (signature stale) fails
\* verify_digest, and is in no inbox
C6_TamperDetected ==
    \A g \in Assembled : \A alt \in Alterations(g) :
        /\ ~verify_digest(alt)
        /\ alt \notin InboxMsgs

NonFinite(x) == x.class # "finite"
SameFloat(x, y) == x = y \/ (NonFinite(x) /\ NonFinite(y))

\* c1 and c2 are captures alike in everything but floats that are not finite
\* in the one and not finite in the other
AlikeButNonFinite(c1, c2) ==
    /\ c1.kind = "Retina"
    /\ c2.kind = "Retina"
    /\ SameFloat(c1.lambda, c2.lambda)
    /\ SameFloat(c1.foveation.sigma, c2.foveation.sigma)
    /\ SameFloat(c1.foveation.center_x, c2.foveation.center_x)
    /\ SameFloat(c1.foveation.center_y, c2.foveation.center_y)
    /\ [c1 EXCEPT !.lambda = c2.lambda, !.foveation = c2.foveation] = c2

\* C6, as the code has it: a changed digest or sender fails verify_digest; a
\* changed content fails it unless the two contents are captures that differ
\* only in floats that are not finite, which it passes; what fails is in no
\* inbox and no run appends it, and what passes is appended by a run of a
\* node that holds its parent and trusts its sender
C6_Alt(g, alt) ==
    /\ (alt.digest # g.digest \/ alt.sender # g.sender) => ~verify_digest(alt)
    /\ alt.content # g.content =>
          (verify_digest(alt) <=> AlikeButNonFinite(g.content, alt.content))
    /\ ~verify_digest(alt) => alt \notin InboxMsgs
C6_Run(n, m) ==
    /\ ~verify_digest(m) => NotAppended(n)
    /\ (verify_digest(m) /\ CausalityOK(n, m) /\ TrustOK(n, m)) => Appended(n, m)
C6_NonFiniteUndetected ==
    /\ [](\A g \in Assembled : \A alt \in Alterations(g) : C6_Alt(g, alt))
    /\ [][EveryRun(C6_Run)]_vars

\* A sent one capture, its lambda NaN; B holds it, and after it the same
\* message with the lambda of its content changed to +inf and the digest as
\* it was, which send_to put in B's queue
C6_Witness ==
    /\ ops = 2
    /\ Idle
    /\ Len(node["A"].inbox) = 1
    /\ node["A"].inbox[1].content.kind = "Retina"
    /\ node["A"].inbox[1].content.lambda = NaN
    /\ node["B"].inbox =
          <<node["A"].inbox[1],
            [node["A"].inbox[1] EXCEPT !.content.lambda = PosInf]>>

\* C7: every inbox message has digest = hash(content) and signature =
\* bind(sender, digest), and a run of the acceptance path leaves the inbox as
\* it was or appends the very message it was given, every field as assembled
C7_Stored ==
    \A n \in Alive : \A i \in 1..Len(node[n].inbox) :
        LET m == node[n].inbox[i]
        IN  /\ m.digest = <<m.content>>
            /\ m.signature = <<"SIG", m.sender, m.digest>>
C7_Run(n, m) == Appended(n, m) \/ NotAppended(n)
C7_StoredAsAssembled ==
    /\ []C7_Stored
    /\ [][EveryRun(C7_Run)]_vars

\* B holds a message that A assembled and B polled from the bus
C7_Witness ==
    /\ \E i \in 1..Len(node["B"].inbox) :
          /\ node["B"].inbox[i].sender = "A"
          /\ node["B"].inbox[i] \in SeqRange(node["A"].inbox)

\* C8: a message that passes integrity and causality is appended iff the
\* observer's score for its sender is at least 0.30; at exactly one punish
\* step below neutral (0.5 - 0.2, which is the f64 0.30) it is appended, at
\* two punish steps below neutral it is not
C8_Run(n, m) ==
    (IntegrityOK(m) /\ CausalityOK(n, m)) =>
        /\ Appended(n, m) <=> F64Le(Threshold, ScoreOf(n, m.sender))
        /\ ScoreOf(n, m.sender) = Punished(Half) => Appended(n, m)
        /\ ScoreOf(n, m.sender) = Punished(Punished(Half)) => NotAppended(n)
C8_InclusiveThreshold ==
    /\ [][EveryRun(C8_Run)]_vars
    /\ [](Punished(Half) = Threshold)

\* A punished C once and then accepted C's next message
C8_Witness ==
    /\ Len(node["A"].inbox) = 1
    /\ ScoreOf("A", "C") = Rewarded(Punished(Half))
    /\ ops = 2

RECURSIVE RewardN(_, _, _)
RewardN(book, who, k) ==
    IF k = 0 THEN book ELSE RewardN(reward(book, who), who, k - 1)
RECURSIVE PunishN(_, _, _)
PunishN(book, who, k) ==
    IF k = 0 THEN book ELSE PunishN(punish(book, who), who, k - 1)

\* C9: after any sequence of reward, punish and decay calls every tracked
\* score is in [0.0, 1.0]; an identity never seen reads as 0.5; from any such
\* book rewards in a row end at exactly 1.0 and stay there, punishes in a row
\* end at exactly 0.0 and stay there
C9_Bounded ==
    LET book == node["A"].rep IN
    /\ \A who \in DOMAIN book : F64Le(Zero, book[who]) /\ F64Le(book[who], One)
    /\ \A who \in Ids \ DOMAIN book : get(book, who) = Half
    /\ \A who \in Ids :
          /\ RewardN(book, who, 11)[who] = One
          /\ reward(SetScore(book, who, One), who)[who] = One
          /\ PunishN(book, who, 6)[who] = Zero
          /\ punish(SetScore(book, who, Zero), who)[who] = Zero

\* rewards in a row from neutral have reached the ceiling
C9_Witness ==
    /\ ops = MaxRepOps
    /\ \E who \in DOMAIN node["A"].rep : node["A"].rep[who] = One

\* |10 * (t - s) - (0.5 - s)| in units of 2^-60, for 0 <= s <= t, s < 0.5
TenthGapError(s, t) ==
    LET x == BMul(<<10>>, BSub(t.mag, s.mag))
        y == BSub(Half.mag, s.mag)
    IN  IF BLess(x, y) THEN BSub(y, x) ELSE BSub(x, y)

\* C10: decay leaves the tracked set and every score at or above neutral as
\* they were; a score below neutral does not fall, does not pass neutral, and
\* rises by a tenth of its gap to neutral (to within 2^-50, the rounding of
\* the three f64 operations)
C10_Score(s, t) ==
    IF F64Lt(s, Half)
    THEN /\ F64Le(s, t)
         /\ F64Le(t, Half)
         /\ ~s.neg /\ ~t.neg
         /\ BLess(TenthGapError(s, t), BPow2(10))
    ELSE t = s
C10_DecayTenthOfGap ==
    [][DecayReputation("A") =>
          /\ DOMAIN node'["A"].rep = DOMAIN node["A"].rep
          /\ \A who \in DOMAIN node["A"].rep :
                C10_Score(node["A"].rep[who], node'["A"].rep[who])]_vars

\* a score one punish step below neutral has decayed once, beside a score
\* above neutral
C10_Witness ==
    LET book == node["A"].rep IN
    /\ \E who \in DOMAIN book :
          /\ book[who] = decay_score(Punished(Half))
          /\ F64Lt(Punished(Half), book[who])
    /\ \E who \in DOMAIN book : F64Lt(Half, book[who])

(***************************************************************************)
(* The transport                                                           *)
(***************************************************************************)
\* bus b2 is bus b after one copy of m went to every participant of b other
\* than from: those queues are one longer, with m last; from's queue and the
\* set of participants are as they were
BroadcastPost(b, b2, from, m) ==
    /\ b2.peers = b.peers
    /\ DOMAIN b2.queues = DOMAIN b.queues
    /\ \A p \in b.peers \ {from} : b2.queues[p] = Append(b.queues[p], m)
    /\ \A p \in (DOMAIN b.queues) \cap {from} : b2.queues[p] = b.queues[p]

\* a message no node has sent
Probe == send_msg("A", zero_digest, [kind |-> "DraftText", raw |-> <<"p">>], 0)

\* C11: a send's broadcast leaves, in the queue of every participant registered
\* at that moment other than the sender, the old queue followed by one copy of
\* the message, and leaves the sender's own queue alone; the same holds of
\* broadcast on every reachable bus for every identity, registered or not
C11_BroadcastToOthers ==
    /\ [][EveryOwnRun(LAMBDA n, m : BroadcastPost(bus, bus', n, m))]_vars
    /\ [](\A from \in Ids :
             BroadcastPost(bus, broadcast(bus, from, Probe), from, Probe))

\* C registered after one broadcast and before the next: B's queue holds
\* both messages, C's only the second, the sender's none
C11_Witness ==
    /\ "C" \in bus.peers
    /\ Len(bus.queues["B"]) = 2
    /\ Len(bus.queues["C"]) = 1
    /\ bus.queues["C"][1] = bus.queues["B"][2]
    /\ bus.queues["A"] = <<>>

\* the messages of q that n did not send itself, in q's order
RECURSIVE Foreign(_, _)
Foreign(q, n) ==
    IF q = <<>> THEN <<>>
    ELSE IF Head(q).sender = n THEN Foreign(Tail(q), n)
         ELSE <<Head(q)>> \o Foreign(Tail(q), n)

\* what the transport has handed or will hand to n, in that order: the
\* messages poll has run, those a running poll still holds, those queued
Handed(n) ==
    Foreign(node[n].inbox, n)
    \o (IF polling = n THEN inbound ELSE <<>>)
    \o bus.queues[n]

\* the stamps of q go up strictly (the sends of SpecBus are stamped 0, 1, ..)
InSendOrder(q) ==
    \A i \in 1..Len(q) : \A j \in (i + 1)..Len(q) :
        q[i].timestamp < q[j].timestamp

\* C12: a poll's drain returns the queue of its node as it stood, in order,
\* and leaves it empty, every other queue as it was; what a node is handed
\* over all its drains comes in the order of sending and no copy comes twice;
\* draining for an identity that is not registered returns nothing and
\* changes nothing
C12_DrainFifoOnce ==
    /\ [][(Idle /\ polling' # None) =>
             /\ inbound' = bus.queues[polling']
             /\ bus'.queues[polling'] = <<>>
             /\ bus'.peers = bus.peers
             /\ DOMAIN bus'.queues = DOMAIN bus.queues
             /\ \A p \in (DOMAIN bus.queues) \ {polling'} :
                   bus'.queues[p] = bus.queues[p]]_vars
    /\ [](\A n \in Alive : InSendOrder(Handed(n)))
    /\ [](\A id \in Ids \ DOMAIN bus.queues :
             /\ drain_inbound_msgs(bus, id) = <<>>
             /\ drain_inbound_bus(bus, id) = bus)

\* A's second drain returned two messages, in the order sent, after its
\* first drain returned one; C is not registered
C12_Witness ==
    /\ polling = "A"
    /\ Len(inbound) = 2
    /\ Len(Foreign(node["A"].inbox, "A")) = 1
    /\ bus.queues["A"] = <<>>
    /\ "C" \notin DOMAIN bus.queues

(***************************************************************************)
(* Inbox and ownership                                                     *)
(***************************************************************************)
\* p is q, or q with entries added after its last
IsPrefix(q, p) ==
    /\ Len(q) <= Len(p)
    /\ \A i \in 1..Len(q) : p[i] = q[i]

\* C13: over every step (a send, an ack, a drain, a step of poll's loop, heal,
\* decay, a message put on the bus) each node's inbox before the step is a
\* prefix of its inbox after it
C13_InboxAppendOnly ==
    [][\A n \in Alive : n \in DOMAIN node' /\ IsPrefix(node[n].inbox, node'[n].inbox)]_vars

\* an inbox that grew twice, by two different messages
C13_Witness ==
    \E n \in Alive :
        /\ Len(node[n].inbox) = 2
        /\ node[n].inbox[1] # node[n].inbox[2]

\* every node but x is as it was
OnlyNode(x) == \A y \in Alive \ {x} : y \in DOMAIN node' /\ node'[y] = node[y]

\* the queues other than x's only grew at the end, x's is as it was
OnlyEnqueued(x) ==
    /\ DOMAIN bus'.queues = DOMAIN bus.queues
    /\ \A p \in DOMAIN bus.queues :
          IF p = x THEN bus'.queues[p] = bus.queues[p]
          ELSE IsPrefix(bus.queues[p], bus'.queues[p])

\* C14: a step made by an operation of node x leaves every other node's
\* inbox, book and retina cache as they were: a send or ack of x changes
\* beside x only the other participants' queues, by appending; a drain of x
\* changes only x's queue, a step of x's poll loop only x, a decay only x's
\* book; a message put on the bus by send_to changes no node
C14_ExclusiveOwnership ==
    [][/\ DOMAIN node' = DOMAIN node
       /\ \E x \in Ids : OnlyNode(x)
       /\ EveryOwnRun(LAMBDA n, m : OnlyNode(n) /\ OnlyEnqueued(n))
       /\ polling # None => OnlyNode(polling) /\ bus' = bus
       /\ (Idle /\ polling' # None) =>
             /\ node' = node
             /\ \A p \in (DOMAIN bus.queues) \ {polling'} :
                   bus'.queues[p] = bus.queues[p]
       /\ \A n \in Ids : DecayReputation(n) =>
             /\ OnlyNode(n)
             /\ bus' = bus
             /\ node'[n].inbox = node[n].inbox
             /\ node'[n].retina_store = node[n].retina_store
       /\ bus' # bus /\ Enqueued = {} /\ Idle /\ polling' = None => node' = node]_vars

\* A has sent a capture and taken it itself; B, for whom it is queued, is as
\* constructed
C14_Witness ==
    /\ node["B"] = NewNode("B")
    /\ DOMAIN node["A"].retina_store # {}
    /\ bus.queues["B"] # <<>>
    /\ bus.queues["A"] = <<>>

(***************************************************************************)
(* The conversation                                                        *)
(***************************************************************************)
SixTenths == F64(<<6528, 13107, 26214, 19660>>)     \* 0.6

\* the first call of SpecChat when it is A's root, and the replies B can
\* make to it as the second call: a capture, a Delivered or a Read receipt
Root0 == send_msg("A", zero_digest, FlowEvidence, 0)
Replies1 ==
    {send_msg("B", Root0.digest, ev, 1) : ev \in Captures}
    \cup {ack_msg("B", e, Root0.digest, 1) : e \in {"Delivered", "Read"}}

\* nothing is queued and no poll is running
Quiet == Idle /\ \A p \in DOMAIN bus.queues : bus.queues[p] = <<>>

\* C15: from the fresh network of A, B and C, once A has sent a root and
\* everything queued has been polled, every inbox is that root alone and every
\* book holds A at 0.6 and nobody else; once B has then replied to the root
\* and everything has been polled, every inbox is the root followed by the
\* reply and every book holds A at 0.6 and B at 0.6
C15_AfterRoot ==
    (ops = 1 /\ Quiet /\ Root0 \in SeqRange(node["A"].inbox)) =>
        \A n \in Ids :
            /\ node[n].inbox = <<Root0>>
            /\ node[n].rep = [x \in {"A"} |-> SixTenths]
C15_AfterReply ==
    \A reply \in Replies1 :
        (/\ ops = 2
         /\ Quiet
         /\ Root0 \in SeqRange(node["A"].inbox)
         /\ reply \in SeqRange(node["B"].inbox)) =>
            \A n \in Ids :
                /\ node[n].inbox = <<Root0, reply>>
                /\ node[n].rep = [x \in {"A", "B"} |-> SixTenths]
C15_RootThenReply ==
    /\ C15_AfterRoot
    /\ C15_AfterReply
    /\ Rewarded(Half) = SixTenths

\* A's root and B's capture in reply are in C's inbox, all polls done
C15_Witness ==
    /\ ops = 2
    /\ Quiet
    /\ Len(node["C"].inbox) = 2
    /\ node["C"].inbox[1] = Root0
    /\ node["C"].inbox[2].sender = "B"
    /\ node["C"].inbox[2].content.kind = "Retina"
    /\ node["C"].inbox[2].parent = Root0.digest

\* what a step that is B's ack_delivered(d) or ack_read(d) has done: one
\* Status message with parent d and digest_ack d, assembled for B, has gone
\* through B's own acceptance path and to every other participant's queue
C16_Ack(event, d) ==
    \E m \in Enqueued :
        /\ m = assemble_message("B", d,
                 [kind |-> "Status", event |-> event, digest_ack |-> d, at |-> ops],
                 ops)
        /\ BroadcastPost(bus, bus', "B", m)
        /\ IF CausalityOK("B", m) /\ TrustOK("B", m)
           THEN /\ Appended("B", m)
                /\ ScoreOfNext("B", "B") = Rewarded(ScoreOf("B", "B"))
           ELSE /\ NotAppended("B")
                /\ ScoreOfNext("B", "B") = Punished(ScoreOf("B", "B"))

\* an acceptance run on a receipt: stored only if its parent is zero or held,
\* else dropped at the price of one punish step for the acker
C16_Run(n, m) ==
    m.content.kind = "Status" =>
        /\ m.content.digest_ack = m.parent
        /\ Appended(n, m) => CausalityOK(n, m)
        /\ ~CausalityOK(n, m) =>
              /\ NotAppended(n)
              /\ ScoreOfNext(n, m.sender) = Punished(ScoreOf(n, m.sender))

\* C16: ack_delivered(d) and ack_read(d) assemble a Status message with parent
\* d and digest_ack d, run it through the acker's own acceptance path and
\* broadcast it; whoever runs a receipt stores it only if d is zero or the
\* digest of a message it holds, and otherwise drops it and punishes the
\* acker by one step
C16_ReceiptsAreCausal ==
    [][/\ ops' = ops + 1 =>
             \A d \in Held("B") \cup {zero_digest, bogus_digest} :
                /\ AckDelivered("B", d, ops) => C16_Ack("Delivered", d)
                /\ AckRead("B", d, ops) => C16_Ack("Read", d)
       /\ EveryRun(C16_Run)]_vars

\* A holds B's receipt for A's root and has since punished B for a receipt
\* of a digest A does not hold
C16_Witness ==
    /\ Idle
    /\ \E i \in 2..Len(node["A"].inbox) :
          /\ node["A"].inbox[i].content.kind = "Status"
          /\ node["A"].inbox[i].parent = node["A"].inbox[1].digest
    /\ ScoreOf("A", "B") = Punished(Rewarded(Half))

(***************************************************************************)
(* Fusion                                                                  *)
(***************************************************************************)
\* d, in units of 2^-120, is 1/J as f64 holds it: J * d is 1 to within 2^-53,
\* and d is 1.0 for J = 1 and 0.5 for J = 2
IsOneOver(J, d) ==
    \A x \in {BMul(d.mag, <<J>>)} : \A one \in {Widen(One).mag} :
        /\ ~d.neg
        /\ ~BLess(BPow2(67), IF BLess(x, one) THEN BSub(one, x) ELSE BSub(x, one))
        /\ J = 1 => d = Widen(One)
        /\ J = 2 => d = Widen(Half)

\* fuse_fixations(rs) is nothing for no capture, and else the first capture
\* with fused_variance_drop = 1/J and nothing else changed, with its digest
FuseOK(rs) ==
    \A f \in {fuse_fixations(rs)} :
    IF rs = <<>> THEN f = NoFused
    ELSE /\ f.kind = "Some"
         /\ IsOneOver(Len(rs), f.fused.cert.fused_variance_drop)
         /\ f.fused = [rs[1] EXCEPT !.cert.fused_variance_drop =
                                        f.fused.cert.fused_variance_drop]
         /\ f.fused_digest = <<f.fused>>

SampleBody == RetinaBody(phi_collapse(CHOOSE c \in Captures : TRUE))

\* C17: fusing J >= 1 captures gives a result whose fused_variance_drop is 1/J
\* (the f64 quotient 1.0 / J), fusing none gives no result: for the captures
\* of every inbox, which number up to MaxFuse, and for that many copies of
\* one capture; a node that holds two captures replying to one root gets 0.5
C17_FuseOneOverJ ==
    /\ \A n \in Alive : FuseOK(RetinasOf(node[n].inbox))
    /\ \A J \in 0..MaxFuse : FuseOK([i \in 1..J |-> SampleBody])
    /\ \A n \in Alive :
          LET q == node[n].inbox
              rs == RetinasOf(q)
          IN  (/\ Len(rs) = 2
               /\ \A i \in 1..Len(q) :
                     q[i].content.kind = "Retina" => q[i].parent = q[1].digest)
              => fuse_fixations(rs).fused.cert.fused_variance_drop = Widen(Half)

\* A holds its root and B's two captures in reply to it
C17_Witness ==
    /\ Len(node["A"].inbox) = 3
    /\ node["A"].inbox[1].content.kind = "Text"
    /\ \A i \in 2..3 :
          /\ node["A"].inbox[i].content.kind = "Retina"
          /\ node["A"].inbox[i].sender = "B"
          /\ node["A"].inbox[i].parent = node["A"].inbox[1].digest

(***************************************************************************)
(* Failure kinds                                                           *)
(***************************************************************************)
\* the kind a run of node n on m is to be reported as: that of the first
\* check to fail in the order integrity, causality, trust
FirstFailure(n, m) ==
    IF ~IntegrityOK(m) THEN "bad digest/signature"
    ELSE IF ~CausalityOK(n, m) THEN "missing parent"
    ELSE IF ~TrustOK(n, m) THEN "sender below trust threshold"
    ELSE NoReason

\* messages claiming C that fail one, two or all three checks at a node that
\* holds C low: a root and an orphan, each as assembled and with its content
\* replaced after assembly
C18_Messages ==
    LET root == Genuine("C")
        orphan == [root EXCEPT !.parent = bogus_digest]
    IN  {root, orphan,
         [root EXCEPT !.content = OtherContent],
         [orphan EXCEPT !.content = OtherContent]}

C18_Run(n, m) ==
    /\ reject_reason(node[n], m) = FirstFailure(n, m)
    /\ (FirstFailure(n, m) # NoReason) <=> NotAppended(n)
    /\ (FirstFailure(n, m) = NoReason) <=> Appended(n, m)

\* C18: every acceptance run that rejects reports one reason, that of the
\* first check to fail in the order integrity, causality, trust, and a run
\* that accepts reports none; so it is for every message at every node,
\* whatever else is wrong with the message
C18_FirstFailureReported ==
    /\ [][EveryRun(C18_Run)]_vars
    /\ [](\A n \in Alive : \A m \in C18_Messages \cup AllMsgs :
             reject_reason(node[n], m) = FirstFailure(n, m))

\* A holds C below the threshold and a message of C: of C18_Messages one
\* fails trust alone, one causality and trust, one all three checks
C18_Witness ==
    /\ F64Lt(ScoreOf("A", "C"), Threshold)
    /\ node["A"].inbox # <<>>
    /\ polling = "A"
    /\ ~IntegrityOK(Head(inbound))

(***************************************************************************)
(* Store failure                                                           *)
(***************************************************************************)
\* C19 as stated: a send of Blob evidence whose store write fails leaves the
\* inbox, book and cache of every node and every queue as they were and
\* returns to its caller, the program going on to later sends and polls
C19_StoreFailureContained ==
    [][\A n \in Alive, ev \in BlobEvidence :
          \A parent \in Held(n) \cup {zero_digest} :
             SendPut(n, parent, ev, 0, FALSE) =>
                 /\ node' = node
                 /\ bus' = bus
                 /\ polling' = None]_vars

\* what the code does instead: nothing is changed, and the thread has
\* panicked out of send
C19_StoreFailurePanics ==
    [][\A n \in Alive, ev \in BlobEvidence :
          \A parent \in Held(n) \cup {zero_digest} :
             SendPut(n, parent, ev, 0, FALSE) =>
                 /\ node' = node
                 /\ bus' = bus
                 /\ polling' = Panicked]_vars

\* a store write failed after a Blob message had been sent and polled
C19_Witness ==
    /\ polling = Panicked
    /\ \E i \in 1..Len(node["B"].inbox) :
          /\ node["B"].inbox[i].content.kind = "Blob"
          /\ node["B"].inbox[i].sender = "A"

(***************************************************************************)
(* Text canonicalization                                                   *)
(***************************************************************************)
\* t has no whitespace at either end, none but the space, and no two in a row
IsCanonical(t) ==
    /\ t # <<>> => ~IsWhitespace(t[1]) /\ ~IsWhitespace(t[Len(t)])
    /\ \A i \in 1..Len(t) : IsWhitespace(t[i]) => t[i] = " "
    /\ \A i \in 1..(Len(t) - 1) : ~(IsWhitespace(t[i]) /\ IsWhitespace(t[i + 1]))

\* the characters of raw that are not whitespace, in order, each with
\* whether whitespace stands between it and the one before it
Skeleton(raw) ==
    LET solid == {i \in 1..Len(raw) : ~IsWhitespace(raw[i])}
        rank(i) == Cardinality({k \in solid : k <= i})
    IN  { <<rank(i), raw[i],
            \E k \in solid :
                /\ k + 1 < i
                /\ \A j \in (k + 1)..(i - 1) : j \notin solid>> : i \in solid }

\* r1 and r2 differ only in whitespace: the same letters, broken into words
\* at the same places, with any whitespace at the breaks and at the ends
SameButWhitespace(r1, r2) == Skeleton(r1) = Skeleton(r2)

\* the Text messages held anywhere
TextMsgs == {m \in AllMsgs : m.content.kind = "Text"}

\* what each draft of Texts collapses to, and what it is but for whitespace
CanonOf == [r \in Texts |-> phi_collapse(Draft(r))]
SkeletonOf == [r \in Texts |-> Skeleton(r)]

\* of collapse on every draft of Texts: the canonical text is the draft but
\* for whitespace, is canonical and collapses to itself, and every draft that
\* differs from this one only in whitespace collapses to the same content,
\* with the same digest
C20_Collapse ==
    \A r \in Texts :
        LET c == CanonOf[r].canonical_text
        IN  /\ CanonOf[r].kind = "Text"
            /\ Skeleton(c) = SkeletonOf[r]
            /\ IsCanonical(c)
            /\ phi_collapse(Draft(c)) = CanonOf[r]
            /\ \A r2 \in Texts :
                  SkeletonOf[r2] = SkeletonOf[r] =>
                      /\ CanonOf[r2] = CanonOf[r]
                      /\ compute_digest(CanonOf[r2]) = compute_digest(CanonOf[r])

\* C20: the canonical text of a collapsed draft has no whitespace at its ends
\* and single spaces for the runs inside; drafts that differ only in
\* whitespace collapse to the same content and so to the same digest;
\* collapsing a canonical text gives it back: of collapse on every draft, of
\* the message a send of a draft assembles, and of every message held
C20_Canonical ==
    /\ []C20_Collapse
    /\ [][ops' # ops =>
             \A m \in Enqueued : \A r \in Texts :
                 (CanonOf[r] = m.content /\ Send("A", zero_digest, Draft(r), 0)) =>
                     /\ Appended("A", m)
                     /\ SameButWhitespace(r, m.content.canonical_text)
                     /\ m.digest = compute_digest(CanonOf[r])]_vars
    /\ [](\A m \in TextMsgs :
             /\ IsCanonical(m.content.canonical_text)
             /\ phi_collapse(Draft(m.content.canonical_text)) = m.content)

\* B holds the two-word text "a b", which the drafts of A with a space and a
\* carriage return between the words, or with two spaces, collapse to
C20_Witness ==
    /\ Len(node["B"].inbox) = 1
    /\ node["B"].inbox[1].sender = "A"
    /\ node["B"].inbox[1].content = [kind |-> "Text", canonical_text |-> <<"a", " ", "b">>]
    /\ node["B"].inbox[1].content = CanonOf[<<"a", " ", "\r", "b">>]
    /\ node["B"].inbox[1].content = CanonOf[<<"a", " ", " ", "b">>]
    /\ SameButWhitespace(<<"a", "\r", " ", "b">>, node["B"].inbox[1].content.canonical_text)

(***************************************************************************)
(* send_to, and what a rejection leaves behind                             *)
(***************************************************************************)
\* bus b2 is bus b after send_to(to, m): m is last in to's queue if to is
\* registered, and everything else, or everything, is as it was
SendToPost(b, b2, to, m) ==
    IF to \in b.peers
    THEN b2 = [b EXCEPT !.queues[to] = Append(b.queues[to], m)]
    ELSE b2 = b

\* C21: send_to(peer, m) appends m to peer's queue if peer is registered and
\* otherwise leaves the bus as it was, no queue made and none changed: in
\* every send_to step, and of send_to on every reachable bus
C21_SendToRegisteredOnly ==
    /\ [][\A to \in Ids, msg \in Injected :
             SendTo(to, msg) =>
                 /\ SendToPost(bus, bus', to, msg)
                 /\ DOMAIN bus'.queues = DOMAIN bus.queues
                 /\ node' = node]_vars
    /\ [](\A to \in Ids :
             /\ SendToPost(bus, send_to(bus, to, Probe), to, Probe)
             /\ DOMAIN send_to(bus, to, Probe).queues = DOMAIN bus.queues)

\* two send_to calls were all that happened: one left a message claiming A
\* in B's queue, and nothing is queued for anyone else, C having no queue
C21_Witness ==
    /\ ops = 2
    /\ \A n \in Alive : node[n] = NewNode(n)
    /\ Len(bus.queues["B"]) = 1
    /\ bus.queues["B"][1] \in Injected
    /\ bus.queues["A"] = <<>>
    /\ "C" \notin DOMAIN bus.queues

\* C22: a run of the acceptance path that rejects leaves the node's inbox
\* and retina cache as they were, and its book too but for the score of the
\* message's claimed sender
C22_Run(n, m) ==
    ~(IntegrityOK(m) /\ CausalityOK(n, m) /\ TrustOK(n, m)) =>
        /\ node'[n].inbox = node[n].inbox
        /\ node'[n].retina_store = node[n].retina_store
        /\ node'[n].id = node[n].id
        /\ \A x \in (DOMAIN node[n].rep) \ {m.sender} :
               x \in DOMAIN node'[n].rep /\ node'[n].rep[x] = node[n].rep[x]
        /\ DOMAIN node'[n].rep = (DOMAIN node[n].rep) \cup {m.sender}
C22_RejectionTouchesScoreOnly == [][EveryRun(C22_Run)]_vars

\* A sent a capture with a parent it does not hold: it holds and caches
\* nothing, has punished itself, and the capture is on its way to B
C22_Witness ==
    /\ node["A"].inbox = <<>>
    /\ DOMAIN node["A"].retina_store = {}
    /\ ScoreOf("A", "A") = Punished(Half)
    /\ \E i \in 1..Len(bus.queues["B"]) :
          /\ bus.queues["B"][i].content.kind = "Retina"
          /\ bus.queues["B"][i].sender = "A"
          /\ bus.queues["B"][i].parent = bogus_digest

(***************************************************************************)
(* Delivery order                                                          *)
(***************************************************************************)
\* node self after running the messages of q through receive_internal, first
\* to last
RECURSIVE RunAll(_, _)
RunAll(self, q) ==
    IF q = <<>> THEN self ELSE RunAll(receive_internal(self, Head(q)), Tail(q))

\* a running poll holds m1 then m2, m2 a reply to m1, and each would pass if
\* it came alone after what the node holds now, but for m2's parent
TwoInOnePoll ==
    /\ polling \in Alive
    /\ Len(inbound) >= 2
    /\ inbound[2].parent = inbound[1].digest
    /\ ~CausalityOK(polling, inbound[2])
    /\ IntegrityOK(inbound[1]) /\ CausalityOK(polling, inbound[1])
    /\ TrustOK(polling, inbound[1])
    /\ IntegrityOK(inbound[2]) /\ TrustOK(polling, inbound[2])

\* a step of a running poll leaves what the poll will have done unchanged
HeadFirst ==
    (polling \in Alive) =>
        LET after == node'[polling]
            left == inbound'
        IN  RunAll(after, left) = RunAll(node[polling], inbound)

\* C23: what an observer holds of the other nodes' messages is in the order
\* they were broadcast; each step of poll's loop runs the oldest message the
\* poll still holds, so the node a poll leaves is the node running the
\* drained messages first to last gives; and a reply drained together with
\* its parent finds the parent in the inbox: both are appended, in that order
C23_DeliveryOrder ==
    /\ [](\A n \in Alive : InSendOrder(Foreign(node[n].inbox, n)))
    /\ [][HeadFirst]_vars
    /\ [](TwoInOnePoll =>
             SubSeq(RunAll(node[polling], inbound).inbox, 1, Len(node[polling].inbox) + 2)
                 = node[polling].inbox \o <<inbound[1], inbound[2]>>)

\* C has drained A's root and B's reply to it in one poll, and holds nothing
\* yet
C23_Witness ==
    /\ TwoInOnePoll
    /\ polling = "C"
    /\ node["C"].inbox = <<>>
    /\ inbound = <<Root0, inbound[2]>>
    /\ inbound[2] \in Replies1

(***************************************************************************)
(* Delivery                                                                *)
(***************************************************************************)
\* the messages the sends of SpecLive can assemble
BusMsgs ==
    {send_msg(s, zero_digest, FlowEvidence, t) : s \in Ids, t \in 0..(MaxLiveOps - 1)}

\* node n has run m (every message of SpecLive passes, so n holds it)
HasRun(n, m) == n \in Alive /\ m \in SeqRange(node[n].inbox)

\* C24: when every participant keeps polling, a message its sender has sent
\* is in the end run by A and by B, who are registered throughout, and a copy
\* queued for any participant is in the end run by it; no copy is queued
\* for its own sender, and no copy is handed to a node twice
C24_EveryCopyRunOnce ==
    /\ \A m \in BusMsgs : \A n \in {"A", "B"} \ {m.sender} :
          HasRun(m.sender, m) ~> HasRun(n, m)
    /\ \A m \in BusMsgs : \A n \in Ids :
          (n \in DOMAIN bus.queues /\ m \in SeqRange(bus.queues[n])) ~> HasRun(n, m)
    /\ [](\A n \in DOMAIN bus.queues : \A i \in 1..Len(bus.queues[n]) :
             bus.queues[n][i].sender # n)
    /\ [](\A n \in Alive :
             \A i \in 1..Len(Handed(n)) : \A j \in (i + 1)..Len(Handed(n)) :
                 Handed(n)[i] # Handed(n)[j])

\* every send has been made, C having registered after the first, and every
\* copy has been run: A and B hold all MaxLiveOps messages, C all but the first
C24_Witness ==
    /\ ops = MaxLiveOps
    /\ Quiet
    /\ "C" \in Alive
    /\ Len(node["A"].inbox) = MaxLiveOps
    /\ Len(node["B"].inbox) = MaxLiveOps
    /\ Len(node["C"].inbox) = MaxLiveOps - 1

\* the messages node n can assemble in Spec: by send, by the two acks
OwnMsgs(n) ==
    {send_msg(n, parent, ev, now) :
        parent \in ParentChoices, ev \in SendEvidence, now \in Times}
    \cup {ack_msg(n, event, d, now) :
            event \in {"Delivered", "Read"}, d \in ParentChoices, now \in Times}

\* C25: a step in which node n originates m (send, ack_delivered, ack_read)
\* leaves one copy of m at the end of the queue of every other registered
\* participant, whether n's own acceptance path took m or rejected it; when
\* it rejected m, n's inbox is as it was and the copies are queued all the same
C25_Hands(n, m) ==
    Originates(n, m) =>
        /\ BroadcastPost(bus, bus', n, m)
        /\ IF reject_reason(node[n], m) = NoReason
           THEN Appended(n, m)
           ELSE NotAppended(n)
C25_BroadcastUnconditional ==
    [][ops' = ops + 1 => \A n \in Alive : \A m \in OwnMsgs(n) : C25_Hands(n, m)]_vars

\* A holds B's reply to A's root, which B itself rejected: B had not polled
\* the root when it replied, and its inbox is still without the reply
C25_Witness ==
    \E i \in 1..Len(node["A"].inbox) :
        LET m == node["A"].inbox[i]
        IN  /\ m.sender = "B"
            /\ m.parent # zero_digest
            /\ m \notin SeqRange(node["B"].inbox)

(***************************************************************************)
(* Fusion: the representative                                              *)
(***************************************************************************)
DropOf(rs) == fuse_fixations(rs).fused.cert.fused_variance_drop

\* C26: for the captures rs of any inbox, in inbox order: the fused record is
\* rs[1] in every field but cert.fused_variance_drop; fusing rs gives what
\* fusing Len(rs) copies of rs[1] gives (the order of the others, and what
\* they are, does not matter); fused_digest is the digest of the fused record;
\* and each longer prefix of rs has a strictly smaller fused_variance_drop
C26_Fused(rs) ==
    LET f == fuse_fixations(rs) IN
    rs # <<>> =>
        /\ f.fused = [rs[1] EXCEPT !.cert.fused_variance_drop = DropOf(rs)]
        /\ f = fuse_fixations([i \in 1..Len(rs) |-> rs[1]])
        /\ f.fused_digest = <<f.fused>>
        /\ \A J \in 1..(Len(rs) - 1) :
              F64Lt(DropOf(SubSeq(rs, 1, J + 1)), DropOf(SubSeq(rs, 1, J)))
C26_FirstExceptDrop ==
    \A n \in Alive : C26_Fused(RetinasOf(node[n].inbox))

\* A holds MaxFuse captures, the first of one kind and the last of the other
C26_Witness ==
    LET rs == RetinasOf(node["A"].inbox)
    IN  /\ Len(rs) = MaxFuse
        /\ rs[1].lambda # rs[MaxFuse].lambda

(***************************************************************************)
(* Rejection is final                                                      *)
(***************************************************************************)
\* the messages the sends of SpecHeal can assemble
HealMsgs ==
    {send_msg("A", zero_digest, FlowEvidence, t) : t \in 0..(MaxHealOps - 1)}
    \cup {send_msg("A", RootDigest, ReplyEvidence, t) : t \in 0..(MaxHealOps - 1)}

\* node n's poll is about to run m, and rejects it
RejectsNow(n, m) ==
    /\ polling = n
    /\ Head(inbound) = m
    /\ reject_reason(node[n], m) # NoReason

\* C27: from the moment a node's poll rejects a copy, the copy is never in
\* that node's inbox, whatever polls, heals and decays follow and whatever the
\* node accepts later; and a heal step changes neither the nodes nor the bus
C27_RejectionTerminal ==
    /\ \A n \in {"A", "B"} : \A m \in HealMsgs :
          [](RejectsNow(n, m) => [](m \notin SeqRange(node[n].inbox)))
    /\ [][\A n \in Ids : Heal(n) => (node' = node /\ bus' = bus)]_vars

\* B rejected the reply for want of its parent and accepted the root after:
\* B holds the root, the reply (sent before it) is neither held nor pending,
\* and B has punished A once and rewarded it once
C27_Witness ==
    /\ Quiet
    /\ \E i \in 1..Len(node["A"].inbox) :
          /\ node["A"].inbox[i].parent = zero_digest
          /\ node["A"].inbox[i].timestamp > 0
    /\ Len(node["B"].inbox) = 1
    /\ node["B"].inbox[1].parent = zero_digest
    /\ node["B"].inbox[1].timestamp > 0
    /\ ops = MaxHealOps
    /\ F64Lt(ScoreOf("B", "A"), Half)

(***************************************************************************)
(* Rehabilitation                                                          *)
(***************************************************************************)
MaxDecays == 9      \* decay calls in a row

\* the books of k decay calls in a row: book itself, then one more decay each
RECURSIVE DecayPath(_, _)
DecayPath(book, k) ==
    IF k = 0 THEN <<book>> ELSE <<book>> \o DecayPath(decay(book), k - 1)

\* node A with book in place of its own, running a valid root text from who:
\* the message is appended iff who's score in book is at least the threshold
C28_Admits(book, who) ==
    LET self == [node["A"] EXCEPT !.rep = book]
        after == receive_internal(self, Genuine(who))
    IN  IF F64Lt(book[who], Threshold)
        THEN after.inbox = self.inbox
        ELSE after.inbox = Append(self.inbox, Genuine(who))

\* along the books of MaxDecays decay calls in a row who's score never falls, is at
\* least the threshold at the end, and at every count the valid message is
\* accepted exactly when the score has got there
C28_Recovers(path, who) ==
    /\ F64Le(Threshold, path[MaxDecays + 1][who])
    /\ \A k \in 1..MaxDecays : F64Le(path[k][who], path[k + 1][who])
    /\ \A k \in 1..(MaxDecays + 1) : C28_Admits(path[k], who)

\* C28: from every book reward, punish and decay calls lead to (scores on
\* the floor 0.0 among them), a finite number of decay calls, at most
\* MaxDecays, brings each tracked score to the threshold or above, where a
\* valid message of that identity is accepted again
C28_DecayRehabilitates ==
    \A path \in {DecayPath(node["A"].rep, MaxDecays)} :
        \A who \in DOMAIN node["A"].rep : C28_Recovers(path, who)

\* a score just under the threshold (0.5 + 0.1 + 0.1 - 0.2 - 0.2 in f64) has
\* been decayed once and is at the threshold or above
C28_Witness ==
    LET book == node["A"].rep
        x == Punished(Punished(Rewarded(Rewarded(Half))))
    IN  /\ ops = 5
        /\ \E who \in DOMAIN book :
              /\ F64Lt(x, Threshold)
              /\ book[who] = decay_score(x)
              /\ F64Le(Threshold, book[who])

(***************************************************************************)
(* Timestamps                                                              *)
(***************************************************************************)
\* the timestamps a copy could carry instead of its own
Stamps == 0..MaxChatOps

\* node n running m ends as node n running m with timestamp t would, but for
\* the timestamp of the appended copy: same verdict and reason, same book,
\* same retina cache, and the copy at the same inbox position
C29_Run(n, m) ==
    \A t \in Stamps :
        LET twin == [m EXCEPT !.timestamp = t]
            other == receive_internal(node[n], twin)
        IN  /\ reject_reason(node[n], twin) = reject_reason(node[n], m)
            /\ other.rep = node'[n].rep
            /\ other.retina_store = node'[n].retina_store
            /\ Len(other.inbox) = Len(node'[n].inbox)
            /\ \A i \in 1..Len(other.inbox) :
                  other.inbox[i] =
                      IF i = Len(node[n].inbox) + 1 THEN twin ELSE node'[n].inbox[i]

\* C29: every acceptance run (of a poll, of a send or ack on its own
\* message) comes out the same for the message with any other timestamp
C29_TimestampBlind == [][EveryRun(C29_Run)]_vars

\* C holds two messages that differ in their timestamps only, accepted both,
\* and a reply whose timestamp is later than its parent's
C29_Witness ==
    LET q == node["C"].inbox IN
    /\ \E i, j \in 1..Len(q) :
          /\ q[i] # q[j]
          /\ [q[i] EXCEPT !.timestamp = q[j].timestamp] = q[j]
    /\ \E i \in 1..Len(q) : q[i].parent # zero_digest

(***************************************************************************)
(* Honest runs                                                             *)
(***************************************************************************)
\* node n's run of m accepts it
C30_Run(n, m) ==
    /\ reject_reason(node[n], m) = NoReason
    /\ Appended(n, m)

\* C30: in SpecHonest every acceptance run, of a poll or of a sender on its
\* own message, accepts the message, and every score of every book is at
\* least neutral
C30_HonestNeverPunished ==
    /\ [][EveryRun(C30_Run)]_vars
    /\ [](\A n \in Alive : \A who \in DOMAIN node[n].rep :
             F64Le(Half, node[n].rep[who]))

\* every call has been made and every copy run: all three hold all the
\* messages, a reply or receipt to a held message among them, and C has
\* rewarded another node
C30_Witness ==
    /\ ops = MaxHonestOps
    /\ Quiet
    /\ \A n \in Ids : Len(node[n].inbox) = MaxHonestOps
    /\ \E i \in 1..Len(node["C"].inbox) :
          /\ node["C"].inbox[i].parent # zero_digest
          /\ node["C"].inbox[i].sender # "C"
    /\ \E who \in (DOMAIN node["C"].rep) \ {"C"} : F64Lt(Half, node["C"].rep[who])

(***************************************************************************)
(* Quarantine                                                              *)
(***************************************************************************)
\* node n holds who below the admission threshold
Quarantined(n, who) == F64Lt(ScoreOf(n, who), Threshold)

\* a run of a message whose sender n holds below the threshold rejects it
\* and punishes the sender one more step
C31_Run(n, m) ==
    Quarantined(n, m.sender) =>
        /\ reject_reason(node[n], m) # NoReason
        /\ NotAppended(n)
        /\ ScoreOfNext(n, m.sender) = Punished(ScoreOf(n, m.sender))

\* in a step that is not a decay_reputation call no score below the
\* threshold rises
C31_Step ==
    (~(ops' = ops + 1 /\ bus' = bus /\ \E n \in Ids : DecayReputation(n))) =>
        \A n \in Alive : \A who \in Ids :
            Quarantined(n, who) => F64Le(ScoreOfNext(n, who), ScoreOf(n, who))

\* C31: every run of a message from a sender the observer holds below the
\* threshold rejects and punishes again, whatever the message; no step other
\* than decay_reputation raises such a score; and at B and C, whose
\* decay_reputation is never called, a sender below the threshold is below
\* it after every step (so for ever), C's score for itself included
C31_QuarantineAbsorbing ==
    /\ [][EveryRun(C31_Run)]_vars
    /\ [][C31_Step]_vars
    /\ [][\A n \in {"B", "C"} : \A who \in Ids :
             Quarantined(n, who) => F64Lt(ScoreOfNext(n, who), Threshold)]_vars

\* C has punished itself to the floor over its own orphans, and B, which
\* holds C below the threshold, is about to run a valid root text of C
C31_Witness ==
    /\ ScoreOf("C", "C") = Zero
    /\ node["C"].inbox = <<>>
    /\ polling = "B"
    /\ Head(inbound) = Genuine("C")
    /\ Quarantined("B", "C")

(***************************************************************************)
(* The retina cache                                                        *)
(***************************************************************************)
\* the Retina messages node n holds
RetinaMsgs(n) == {m \in SeqRange(node[n].inbox) : m.content.kind = "Retina"}

\* a run that rejects, or accepts a message that is not a Retina, leaves the
\* cache as it was; a run that accepts a Retina sets the entry of its digest
\* to its content and leaves the other entries
C32_Run(n, m) ==
    LET old == node[n].retina_store
        new == node'[n].retina_store
    IN  IF reject_reason(node[n], m) = NoReason /\ m.content.kind = "Retina"
        THEN /\ DOMAIN new = (DOMAIN old) \cup {m.digest}
             /\ new[m.digest] = m.content
             /\ \A d \in (DOMAIN old) \ {m.digest} : new[d] = old[d]
        ELSE new = old

\* C32: in every state the keys of a node's retina cache are the digests of
\* the Retina messages in its inbox and every entry is the content of such a
\* message; and every acceptance run changes the cache as C32_Run says
C32_CacheConsistent ==
    /\ [](\A n \in Alive :
             /\ DOMAIN node[n].retina_store = {m.digest : m \in RetinaMsgs(n)}
             /\ \A d \in DOMAIN node[n].retina_store :
                   \E m \in RetinaMsgs(n) :
                       m.digest = d /\ node[n].retina_store[d] = m.content)
    /\ [][EveryRun(C32_Run)]_vars

\* A holds a capture, cached under its digest, and its poll is about to
\* reject another capture, a reply to a message A does not hold
C32_Witness ==
    /\ \E m \in RetinaMsgs("A") :
          DOMAIN node["A"].retina_store = {m.digest}
    /\ polling = "A"
    /\ Head(inbound).content.kind = "Retina"
    /\ reject_reason(node["A"], Head(inbound)) = "missing parent"

(***************************************************************************)
(* Duplicates                                                              *)
(***************************************************************************)
\* a run of a message that passes the three checks appends it and rewards
\* its sender, a copy of it being in the inbox or not
C33_Run(n, m) ==
    (IntegrityOK(m) /\ CausalityOK(n, m) /\ TrustOK(n, m)) =>
        /\ Appended(n, m)
        /\ ScoreOfNext(n, m.sender) = Rewarded(ScoreOf(n, m.sender))

\* the step leaves every inbox as it was, but that of the node whose run
\* this step is, which it may lengthen by one
C33_OnePerRun ==
    \A n \in Alive :
        node'[n].inbox # node[n].inbox =>
            /\ Len(node'[n].inbox) = Len(node[n].inbox) + 1
            /\ \/ polling = n
               \/ /\ polling = None
                  /\ \E m \in Enqueued : m.sender = n /\ Originates(n, m)

\* node n holds k entries, all of them A's root text, and has rewarded A k
\* times from neutral
C33_Copies(n) ==
    /\ \A i \in 1..Len(node[n].inbox) : node[n].inbox[i] = Genuine("A")
    /\ ScoreOf(n, "A") = get(RewardN(NewBook, "A", Len(node[n].inbox)), "A")

\* C33: every run of a message that passes the three checks appends and
\* rewards, duplicates included; an inbox grows by one per accepting run and
\* in no other way, so its length is the number of accepting runs; and a
\* node handed one message k times holds k entries and has made k reward steps
C33_NoDuplicateCheck ==
    /\ [][EveryRun(C33_Run)]_vars
    /\ [][C33_OnePerRun]_vars
    /\ [](\A n \in Alive : C33_Copies(n))

\* B was handed the same root text of A MaxCopies times, by A's sends and by
\* send_to, holds it that many times and has rewarded A as many times
C33_Witness ==
    /\ Len(node["B"].inbox) = MaxCopies
    /\ node["B"].inbox[1] = node["B"].inbox[MaxCopies]
    /\ Len(node["A"].inbox) = 1
    /\ ScoreOf("B", "A") = get(RewardN(NewBook, "A", MaxCopies), "A")

(***************************************************************************)
(* The parent link                                                         *)
(***************************************************************************)
\* node n's run of m is, for the checks on digest and signature, the run of
\* m with any other parent; and m with parent p would be accepted exactly
\* when m's digest and signature recompute, p is zero or the digest of a
\* message n holds, and n admits the sender
C34_Run(n, m) ==
    \A p \in Parents :
        LET twin == [m EXCEPT !.parent = p]
        IN  /\ verify_digest(twin) = verify_digest(m)
            /\ twin.digest = m.digest
            /\ (reject_reason(node[n], twin) = NoReason)
                  <=> /\ IntegrityOK(m)
                      /\ p = zero_digest \/ p \in Held(n)
                      /\ TrustOK(n, m)

\* assembling one content for any sender, parent and timestamp gives one
\* digest, a signature that depends on the sender, and a message that still
\* passes verify_digest with its parent replaced
C34_Assembly(c) ==
    \A s1, s2 \in Ids : \A p1, p2 \in Parents : \A t1, t2 \in {0, MaxParentOps} :
        LET m1 == assemble_message(s1, p1, c, t1)
            m2 == assemble_message(s2, p2, c, t2)
        IN  /\ m1.digest = m2.digest
            /\ (m1.signature = m2.signature) <=> (s1 = s2)
            /\ verify_digest(m1)
            /\ verify_digest([m1 EXCEPT !.parent = p2])

\* C34: messages around with equal content carry equal digests, whoever
\* sent them and whatever their parents and timestamps; assembling a content
\* gives a digest that depends on nothing else; and every acceptance run
\* treats the parent field as C34_Run says: free to replace without failing
\* the integrity check
C34_ParentNotCovered ==
    /\ [](\A m1, m2 \in AllMsgs : m1.content = m2.content => m1.digest = m2.digest)
    /\ [](\A c \in AllContents : C34_Assembly(c))
    /\ [][EveryRun(C34_Run)]_vars

\* B holds A's reply made into a root: nobody assembled a message of A's
\* with parent zero and that timestamp, A holds the same copy with its
\* parent in place, and both copies carry the digest of the root of B's
\* that A replied to
C34_Witness ==
    \E i \in 1..Len(node["B"].inbox) : \E j \in 1..Len(node["A"].inbox) :
        LET forged == node["B"].inbox[i]
            sent == node["A"].inbox[j]
        IN  /\ sent.sender = "A"
            /\ sent.parent = RootDigest
            /\ forged = [sent EXCEPT !.parent = zero_digest]
            /\ forged \notin SeqRange(node["A"].inbox)
            /\ \E k \in 1..(j - 1) : node["A"].inbox[k].sender = "B"

====
